---- MODULE Spec2Model ----
(***************************************************************************)
(* Model of the RSS -> Discord relay (rss-discord-bot): the KV-backed      *)
(* subscription store (src/utils/kv-storage.ts), the feed parser's date    *)
(* handling and ordering (src/utils/rss-parser.ts) and the two run modes   *)
(* of RSSChecker (src/utils/rss-checker.ts): checkAllFeeds and quickCheck. *)
(*                                                                         *)
(* Time is a logical millisecond clock `now`.  A feed id "feed-00n" is the *)
(* number n (localeCompare on the zero-padded ids orders them as numbers). *)
(* A feed's URL is the key of its remote document in `source`.             *)
(*                                                                         *)
(* Spec is one run at a time with its environment; SpecRead the            *)
(* read-article lists; SpecStore the requests of src/index.ts, two at a    *)
(* time, one KV access a step; SpecOverlap two runs at a time.             *)
(***************************************************************************)
EXTENDS Integers, Sequences, FiniteSets, TLC

(* ------------------------------ bounds -------------------------------- *)

\* the clock stops here; every fetch takes one tick, so this bounds the checks
MaxClock == 6
\* how many events the environment contributes in all: a change of a remote
\* document, a pause or restart command, a failing KV read or write
MaxEvents == 2

(* ------------------------- program constants -------------------------- *)

\* feed.lastPubDate / lastChecked absent (optional fields of FeedInfo)
NoDate == -1
\* getTime() of an Invalid Date (NaN): new Date(<unparsable string>)
InvalidDate == -2
\* parseArticles(feed.url, 20) in checkFeed
FullMaxArticles == 20
\* parseArticles(feed.url, 10) in quickCheck
QuickMaxArticles == 10
\* parseArticles(url, 5) in testFeed
TestMaxArticles == 5
\* new Date(0): the watermark of a feed that was never checked
Epoch == 0
\* errorCount >= 3 sends the system alert
AlertThreshold == 3
\* articleHashes.slice(-1000)
ReadArticlesCap == 1000

(* ------------------------------ state --------------------------------- *)

VARIABLES
    metadata,       \* KV "feeds-metadata": feed id -> FeedInfo
    readArticles,   \* KV "read-articles-<id>": feed id -> list of hashes
    source,         \* the remote documents: url -> set of <item>s
    now,            \* the clock
    run,            \* the invocations of checkAllFeeds / quickCheck
    sent,           \* history: url -> ids of the items posted so far
    lastClean,      \* history: feed id -> what its last clean check saw
    addedLog,       \* history: feed id -> hashes pushed by addReadArticle
    budget,         \* environment events left
    storeFaults,    \* history: KV reads and writes that failed so far
    counter,        \* KV "feeds-counter" (0: absent, or reset to '0')
    calls,          \* the requests being served: client -> its store call
    assigned        \* history: the <<feed id, url>> of the records put so far

vars == <<metadata, readArticles, source, now, run, sent, lastClean,
          addedLog, budget, storeFaults, counter, calls, assigned>>

\* the subscriptions in the store at start: feed-001 and feed-002
Feeds == {1, 2}

(* The <item>s a remote document may hold.  `t` is the item's pubDate in   *)
(* ms; "missing" has no <pubDate> element, "bad" has one that new Date()   *)
(* cannot parse.  Document order is the order of the ids: items 1,2,3 are  *)
(* dated 2,1,3, so the document is sorted neither way.                     *)
Items ==
    { [id |-> 1, kind |-> "dated",   t |-> 2],
      [id |-> 2, kind |-> "dated",   t |-> 1],
      [id |-> 3, kind |-> "dated",   t |-> 3],
      [id |-> 4, kind |-> "missing", t |-> 0],
      [id |-> 5, kind |-> "bad",     t |-> 0] }

ItemIds == { i.id : i \in Items }

\* the remote documents considered: up to two <item>s
Documents == { S \in SUBSET Items : Cardinality(S) <= 2 }

(* ------------------------------ helpers ------------------------------- *)

Min(a, b) == IF a < b THEN a ELSE b

Take(s, n) == SubSeq(s, 1, Min(n, Len(s)))

\* Array.prototype.slice(-n): the last n elements
LastN(s, n) == SubSeq(s, Len(s) - Min(n, Len(s)) + 1, Len(s))

RECURSIVE SeqMax(_)
SeqMax(s) ==
    IF Len(s) = 1 THEN s[1]
    ELSE LET m == SeqMax(Tail(s)) IN IF s[1] >= m THEN s[1] ELSE m

\* a set of records as the sequence ordered by their id
RECURSIVE ById(_)
ById(S) ==
    IF S = {} THEN <<>>
    ELSE LET x == CHOOSE y \in S : \A z \in S : y.id <= z.id
         IN <<x>> \o ById(S \ {x})

\* b.pubDate.getTime() - a.pubDate.getTime() < 0: a sorts before b, newest
\* first.  With an Invalid Date the difference is NaN, which sort treats as 0.
NewerFirst(a, b) ==
    a.pubDate # InvalidDate /\ b.pubDate # InvalidDate /\ a.pubDate > b.pubDate

\* a.pubDate.getTime() - b.pubDate.getTime() < 0: a sorts before b, oldest first
OlderFirst(a, b) ==
    a.pubDate # InvalidDate /\ b.pubDate # InvalidDate /\ a.pubDate < b.pubDate

ArticleBefore(order, a, b) ==
    IF order = "newest" THEN NewerFirst(a, b) ELSE OlderFirst(a, b)

\* stable insertion of x, which followed every element of s in the array
RECURSIVE InsertSorted(_, _, _)
InsertSorted(x, s, order) ==
    IF s = <<>> THEN <<x>>
    ELSE IF ArticleBefore(order, x, s[1]) THEN <<x>> \o s
    ELSE <<s[1]>> \o InsertSorted(x, Tail(s), order)

\* Array.prototype.sort(comparator): stable, equal keys keep their order
RECURSIVE SortArticles(_, _)
SortArticles(s, order) ==
    IF s = <<>> THEN <<>>
    ELSE InsertSorted(s[Len(s)], SortArticles(SubSeq(s, 1, Len(s) - 1), order),
                      order)

(* ------------------------- the KV store (pure) ------------------------ *)

\* JSON.parse of an absent key / of a failed read: {}
EmptyMetadata == [f \in {} |-> 0]

\* getFeedsMetadata: the stored object, or {} when kv.get throws
GetFeedsMetadata(readOk) == IF readOk THEN metadata ELSE EmptyMetadata

\* getFeeds: Object.values(metadata) sorted by id
GetFeeds(md) == ById({ md[f] : f \in DOMAIN md })

\* a variant of UpdateLastChecked that also stores the feed as active
UpdateLastCheckedActivates(md, feedId, time) ==
    IF feedId \in DOMAIN md
    THEN [md EXCEPT ![feedId].lastChecked = time, ![feedId].status = "active"]
    ELSE md

\* updateLastChecked's change to the object it read
UpdateLastChecked(md, feedId, time) ==
    IF feedId \in DOMAIN md
    THEN [md EXCEPT ![feedId].lastChecked = time]
    ELSE md

\* a variant of UpdateLastPubDate that keeps a stored value that is larger
KeepsLargerPubDate(md, feedId, pubDate) ==
    IF feedId \in DOMAIN md /\ md[feedId].lastPubDate < pubDate
    THEN [md EXCEPT ![feedId].lastPubDate = pubDate]
    ELSE md

\* a variant of UpdateLastPubDate that stamps every feed of the object
StampsEveryFeed(md, feedId, pubDate) ==
    IF feedId \in DOMAIN md
    THEN [f \in DOMAIN md |-> [md[f] EXCEPT !.lastPubDate = pubDate]]
    ELSE md

\* updateLastPubDate's change to the object it read
UpdateLastPubDate(md, feedId, pubDate) ==
    IF feedId \in DOMAIN md
    THEN [md EXCEPT ![feedId].lastPubDate = pubDate]
    ELSE md

\* updateFeedStatus's change, the identifier being a feed id
UpdateFeedStatus(md, feedId, status) ==
    IF feedId \in DOMAIN md
    THEN [md EXCEPT ![feedId].status = status]
    ELSE md

(* ------------------------------ the parser ---------------------------- *)

\* pubDateStr ? new Date(pubDateStr) : new Date()
ParsePubDate(item, time) ==
    CASE item.kind = "missing" -> time
      [] item.kind = "bad"     -> InvalidDate
      [] OTHER                 -> item.t

\* parseRSSArticles: one Article per <item>, in document order
ParseArticlesFromXML(items, time) ==
    LET doc == ById(items)
    IN [k \in 1..Len(doc) |-> [id |-> doc[k].id,
                               pubDate |-> ParsePubDate(doc[k], time)]]

\* parseArticles: [] when the fetch fails (the catch), else the newest
\* maxArticles articles, newest first
ParseArticles(items, maxArticles, fetchOk, time) ==
    IF ~fetchOk THEN <<>>
    ELSE Take(SortArticles(ParseArticlesFromXML(items, time), "newest"),
              maxArticles)

(* ------------------------------ the checker --------------------------- *)

\* activeFeeds of checkAllFeeds
ActiveFeeds(feeds) == SelectSeq(feeds, LAMBDA f : f.status = "active")

\* a variant of QuickActiveFeeds without the slice: every active feed
UnslicedActiveFeeds(feeds) == SelectSeq(feeds, LAMBDA f : f.status = "active")

\* activeFeeds of quickCheck: .slice(0, 1)
QuickActiveFeeds(feeds) == Take(ActiveFeeds(feeds), 1)

\* feed.lastPubDate ? new Date(feed.lastPubDate) : new Date(0)
LastPubDate(feed) ==
    IF feed.lastPubDate = NoDate THEN Epoch ELSE feed.lastPubDate

\* article.pubDate > lastPubDate (false for an Invalid Date)
IsNew(article, lastPubDate) ==
    article.pubDate # InvalidDate /\ article.pubDate > lastPubDate

\* article.pubDate.toISOString() in the filter's console.log throws a
\* RangeError on an Invalid Date
FilterThrows(articles) ==
    \E k \in 1..Len(articles) : articles[k].pubDate = InvalidDate

\* checkFeed: filter, then sort oldest first
NewArticles(articles, lastPubDate) ==
    SortArticles(SelectSeq(articles, LAMBDA a : IsNew(a, lastPubDate)),
                 "oldest")

\* quickCheck: filter only
NewOnes(articles, lastPubDate) ==
    SelectSeq(articles, LAMBDA a : IsNew(a, lastPubDate))

\* a variant of LatestPubDate that takes the last element of the fetched list
\* (the oldest, the list being sorted newest first) instead of the maximum
LastElementPubDate(articles) == articles[Len(articles)].pubDate

\* Math.max(...articles.map(a => a.pubDate.getTime()))
LatestPubDate(articles) ==
    SeqMax([k \in 1..Len(articles) |-> articles[k].pubDate])

(* ------------------------------- Init --------------------------------- *)

\* an invocation that has not started; the fields after `alerts` are history
\* of the current check, kept for the properties below (paced: the 1 s wait
\* followed the last post; slept: the 2 s wait followed the last feed;
\* results: how the check of each feed ended; alertsFailed: the alerts whose
\* webhook call failed; writeFailures: the feeds whose saveFeedsMetadata
\* threw; inFlight: the webhook calls that have not returned yet; delivered:
\* the posts of the run that returned true)
IdleRun ==
    [pc |-> "idle", mode |-> "none", feeds |-> <<>>, idx |-> 0,
     articles |-> <<>>, queue |-> <<>>, postedCount |-> 0,
     totalNewArticles |-> 0, successCount |-> 0, errorCount |-> 0,
     alerts |-> 0,
     attempted |-> <<>>, fetchOk |-> TRUE, fault |-> FALSE,
     outcome |-> "none", checked |-> <<>>, same |-> FALSE, wmPrev |-> NoDate,
     pausedAtFetch |-> FALSE, paced |-> FALSE, slept |-> FALSE,
     results |-> <<>>, alertsFailed |-> 0, writeFailures |-> <<>>,
     inFlight |-> 0, delivered |-> 0]

NoClean == [seen |-> FALSE, items |-> {}, wm |-> NoDate]

\* the requests the worker serves at a time
Clients == {1, 2}

\* a client that is not being served; `md` is the call's own copy of the
\* metadata, `id` the feed id it resolved or generated, `todo` the ids
\* removeAllFeeds has still to clear.  via, signed, admin and overlapped are
\* history: how the request came in, and whether it ever ran beside another
IdleCall ==
    [op |-> "none", pc |-> "done", arg |-> 0, md |-> [f \in {} |-> 0],
     id |-> 0, todo |-> <<>>, hasNew |-> FALSE, result |-> "none",
     via |-> "none", signed |-> FALSE, admin |-> FALSE, overlapped |-> FALSE]

\* addFeed's record: status 'active', no lastChecked, no lastPubDate
NewFeedInfo(feedId, url) ==
    [id |-> feedId, url |-> url, status |-> "active",
     lastPubDate |-> NoDate, lastChecked |-> NoDate]

\* the history after a put of the object md
Assigned(before, md) == before \cup { <<f, md[f].url>> : f \in DOMAIN md }

Init ==
    /\ metadata = [f \in Feeds |-> NewFeedInfo(f, f)]
    /\ readArticles = [f \in Feeds |-> <<>>]
    /\ source = [u \in Feeds |-> {}]
    /\ now = Epoch + 3
    /\ run = [r \in {1} |-> IdleRun]
    /\ sent = [u \in Feeds |-> {}]
    /\ lastClean = [f \in Feeds |-> NoClean]
    /\ addedLog = [f \in Feeds |-> <<>>]
    /\ budget = MaxEvents
    /\ storeFaults = 0
    /\ counter = Cardinality(Feeds)
    /\ calls = [c \in Clients |-> IdleCall]
    /\ assigned = Assigned({}, metadata)

(* --------------------------- the environment -------------------------- *)

\* a fetch of feed f's url is the next step of some run
FetchPending(u) ==
    \E r \in DOMAIN run :
        /\ run[r].pc = "fetch"
        /\ run[r].feeds[run[r].idx].url = u

\* no run is between the fetch of a feed and the end of that feed's check
BetweenChecks ==
    \A r \in DOMAIN run : run[r].pc \in {"idle", "done", "fetch", "sleep"}

\* the remote document at url is replaced.  A document is only ever read by
\* a fetch, so its changes are taken where they are seen: before a fetch.
SourceChange(u) ==
    /\ budget > 0
    /\ FetchPending(u)
    /\ \E S \in Documents :
          /\ S # source[u]
          /\ source' = [source EXCEPT ![u] = S]
    /\ budget' = budget - 1
    /\ UNCHANGED <<metadata, readArticles, now, run, sent, lastClean,
                   addedLog, storeFaults>>
    /\ UNCHANGED <<counter, calls, assigned>>

\* handlePauseCommand with the feed's id: refused when the feed is already
\* paused, else updateFeedStatus(id, 'paused')
Pause(f) ==
    /\ budget > 0
    /\ BetweenChecks
    /\ f \in DOMAIN metadata
    /\ metadata' = IF metadata[f].status = "paused" THEN metadata
                   ELSE UpdateFeedStatus(metadata, f, "paused")
    /\ budget' = budget - 1
    /\ UNCHANGED <<readArticles, source, now, run, sent, lastClean,
                   addedLog, storeFaults>>
    /\ UNCHANGED <<counter, calls, assigned>>

\* handleRestartCommand with the feed's id: refused when the feed is already
\* active, else updateFeedStatus(id, 'active')
Restart(f) ==
    /\ budget > 0
    /\ BetweenChecks
    /\ f \in DOMAIN metadata
    /\ metadata' = IF metadata[f].status = "active" THEN metadata
                   ELSE UpdateFeedStatus(metadata, f, "active")
    /\ budget' = budget - 1
    /\ UNCHANGED <<readArticles, source, now, run, sent, lastClean,
                   addedLog, storeFaults>>
    /\ UNCHANGED <<counter, calls, assigned>>

(* ------------------------------ the runs ------------------------------ *)

ArticleIds(articles) == { articles[k].id : k \in 1..Len(articles) }

\* the for loop of checkAllFeeds / quickCheck moves on, or the run returns
NextFeed(rr) ==
    IF rr.idx < Len(rr.feeds)
    THEN [rr EXCEPT !.pc = "fetch", !.idx = @ + 1]
    ELSE [rr EXCEPT !.pc = "done"]

\* a variant of OnFeedError whose catch ends the run instead of moving on to
\* the next feed
OnFeedErrorAborts(rr) ==
    [rr EXCEPT !.errorCount = IF rr.mode = "full" THEN @ + 1 ELSE @,
               !.outcome = "error", !.pc = "done"]

\* the catch around one feed.  checkAllFeeds: errorCount++, the await of
\* notifySystemError if errorCount >= 3, and on to the next feed without the
\* 2 s sleep.  quickCheck: logged only.
OnFeedError(rr) ==
    IF rr.mode = "full"
    THEN LET counted == [rr EXCEPT !.errorCount = @ + 1,
                                   !.outcome = "error",
                                   !.results = Append(@, "error")]
         IN IF counted.errorCount >= AlertThreshold
            THEN [counted EXCEPT !.pc = "alert"]
            ELSE NextFeed(counted)
    ELSE NextFeed([rr EXCEPT !.outcome = "error",
                             !.results = Append(@, "error")])

\* checkFeed returned postedCount: totalNewArticles += it, successCount++,
\* then sleep(2000).  quickCheck: the loop body ended.
OnFeedChecked(rr) ==
    IF rr.mode = "full"
    THEN [rr EXCEPT !.totalNewArticles = @ + rr.postedCount,
                    !.successCount = @ + 1,
                    !.outcome = "ok", !.results = Append(@, "ok"),
                    !.pc = "sleep"]
    ELSE NextFeed([rr EXCEPT !.outcome = "ok", !.results = Append(@, "ok")])

\* checkFeed lines 89-114 / quickCheck lines 211-222: what follows the fetch
AfterFetch(rr, feed) ==
    IF rr.mode = "full"
    THEN IF rr.articles = <<>> THEN [rr EXCEPT !.pc = "saveChecked"]
         ELSE IF FilterThrows(rr.articles) THEN OnFeedError(rr)
         ELSE LET new == NewArticles(rr.articles, LastPubDate(feed))
              IN IF new = <<>> THEN [rr EXCEPT !.pc = "saveChecked"]
                 ELSE [rr EXCEPT !.queue = new, !.pc = "post"]
    ELSE IF rr.articles = <<>> THEN OnFeedChecked(rr)
         ELSE IF FilterThrows(rr.articles) THEN OnFeedError(rr)
         ELSE LET new == NewOnes(rr.articles, LastPubDate(feed))
              IN [rr EXCEPT !.queue = new,
                            !.pc = IF new = <<>> THEN "savePub" ELSE "post"]

\* history: what a check that ended cleanly (fetched, no store fault, no
\* error) saw and left as the watermark
CleanAfter(rr, md, f) ==
    IF rr.outcome = "ok" /\ rr.fetchOk /\ ~rr.fault /\ f \in DOMAIN md
    THEN [seen |-> TRUE, items |-> ArticleIds(rr.articles),
          wm |-> md[f].lastPubDate]
    ELSE NoClean

\* checkAllFeeds lines 28-36 / quickCheck lines 197-203
RunStart(r, mode) ==
    /\ run[r].pc \in {"idle", "done"}
    /\ now < MaxClock
    /\ \E readOk \in {TRUE} \cup {b \in {FALSE} : budget > 0} :
          LET feeds  == GetFeeds(GetFeedsMetadata(readOk))
              active == IF mode = "full" THEN ActiveFeeds(feeds)
                        ELSE QuickActiveFeeds(feeds)
              rr     == [IdleRun EXCEPT !.mode = mode, !.feeds = active,
                                        !.fault = ~readOk]
          IN /\ run' = [run EXCEPT ![r] = NextFeed(rr)]
             /\ budget' = IF readOk THEN budget ELSE budget - 1
             /\ storeFaults' = IF readOk THEN storeFaults ELSE storeFaults + 1
    /\ UNCHANGED <<metadata, readArticles, source, now, sent, lastClean,
                   addedLog>>
    /\ UNCHANGED <<counter, calls, assigned>>

\* await parseArticles(feed.url, 20 | 10) and the synchronous code after it
Fetch(r) ==
    /\ run[r].pc = "fetch"
    /\ now < MaxClock
    /\ LET rr   == run[r]
           feed == rr.feeds[rr.idx]
           time == now + 1
       IN \E fetchOk \in BOOLEAN :
            LET max  == IF rr.mode = "full" THEN FullMaxArticles
                        ELSE QuickMaxArticles
                arts == ParseArticles(source[feed.url], max, fetchOk, time)
                base == [rr EXCEPT
                           !.articles = arts, !.queue = <<>>,
                           !.postedCount = 0, !.attempted = <<>>,
                           !.fetchOk = fetchOk, !.fault = FALSE,
                           !.outcome = "none",
                           !.checked = Append(@, feed.id),
                           !.same = /\ fetchOk
                                    /\ lastClean[feed.id].seen
                                    /\ lastClean[feed.id].items = ArticleIds(arts),
                           !.wmPrev = lastClean[feed.id].wm,
                           !.pausedAtFetch =
                               /\ feed.id \in DOMAIN metadata
                               /\ metadata[feed.id].status = "paused",
                           !.paced = FALSE, !.slept = FALSE]
                after == AfterFetch(base, feed)
            IN /\ run' = [run EXCEPT ![r] = after]
               /\ lastClean' = [lastClean EXCEPT
                                  ![feed.id] = CleanAfter(after, metadata, feed.id)]
               /\ now' = time
    /\ UNCHANGED <<metadata, readArticles, source, sent, addedLog, budget,
                   storeFaults>>
    /\ UNCHANGED <<counter, calls, assigned>>

\* a variant of Post in which a failed post ends the loop of the feed
PostStopsAtFailure(r) ==
    /\ run[r].pc = "post"
    /\ LET rr      == run[r]
           feed    == rr.feeds[rr.idx]
           article == Head(rr.queue)
       IN \E success \in BOOLEAN :
            /\ run' = [run EXCEPT ![r] =
                 [rr EXCEPT
                    !.attempted = Append(@, article),
                    !.queue = IF success THEN Tail(@) ELSE <<>>,
                    !.postedCount = IF success /\ rr.mode = "full"
                                    THEN @ + 1 ELSE @,
                    !.totalNewArticles = IF success /\ rr.mode = "quick"
                                         THEN @ + 1 ELSE @,
                    !.paced = success /\ rr.mode = "full",
                    !.delivered = IF success THEN @ + 1 ELSE @,
                    !.pc = IF ~success \/ Tail(rr.queue) = <<>>
                           THEN "savePub" ELSE "post"]]
            /\ sent' = [sent EXCEPT ![feed.url] = @ \cup {article.id}]
    /\ UNCHANGED <<metadata, readArticles, source, now, lastClean, addedLog,
                   budget, storeFaults>>
    /\ UNCHANGED <<counter, calls, assigned>>

\* one turn of the posting loop: await postArticleToDiscord(article, feed),
\* which returns false when the webhook fails and never throws; checkFeed
\* then awaits sleep(1000) if the post succeeded, quickCheck never waits
Post(r) ==
    /\ run[r].pc = "post"
    /\ LET rr      == run[r]
           feed    == rr.feeds[rr.idx]
           article == Head(rr.queue)
       IN \E success \in BOOLEAN :
            /\ run' = [run EXCEPT ![r] =
                 [rr EXCEPT
                    !.attempted = Append(@, article),
                    !.queue = Tail(@),
                    !.postedCount = IF success /\ rr.mode = "full"
                                    THEN @ + 1 ELSE @,
                    !.totalNewArticles = IF success /\ rr.mode = "quick"
                                         THEN @ + 1 ELSE @,
                    !.paced = success /\ rr.mode = "full",
                    !.delivered = IF success THEN @ + 1 ELSE @,
                    !.pc = IF Tail(rr.queue) = <<>> THEN "savePub" ELSE "post"]]
            /\ sent' = [sent EXCEPT ![feed.url] = @ \cup {article.id}]
    /\ UNCHANGED <<metadata, readArticles, source, now, lastClean, addedLog,
                   budget, storeFaults>>
    /\ UNCHANGED <<counter, calls, assigned>>

\* a variant of PostStart in which the loop does not await the call
PostStartUnawaited(r) ==
    /\ run[r].pc = "post"
    /\ run' = [run EXCEPT ![r] =
          [run[r] EXCEPT
              !.inFlight = @ + 1,
              !.attempted = Append(@, Head(run[r].queue)),
              !.queue = Tail(@),
              !.pc = IF Tail(run[r].queue) = <<>> THEN "savePub" ELSE "post"]]
    /\ UNCHANGED <<metadata, readArticles, source, now, sent, lastClean,
                   addedLog, budget, storeFaults, counter, calls, assigned>>

\* the posting loop in two steps.  The call: checkFeed calls
\* postArticleToDiscord, which calls sendWebhookMessage, and is suspended at
\* its await
PostStart(r) ==
    /\ run[r].pc = "post"
    /\ run' = [run EXCEPT ![r] =
          [run[r] EXCEPT !.inFlight = @ + 1, !.pc = "posting"]]
    /\ UNCHANGED <<metadata, readArticles, source, now, sent, lastClean,
                   addedLog, budget, storeFaults, counter, calls, assigned>>

\* the return: the webhook answered or failed, postArticleToDiscord returns
\* the boolean and the loop goes on as in Post
PostReturn(r) ==
    /\ run[r].pc = "posting"
    /\ LET rr      == run[r]
           feed    == rr.feeds[rr.idx]
           article == Head(rr.queue)
       IN \E success \in BOOLEAN :
            /\ run' = [run EXCEPT ![r] =
                 [rr EXCEPT
                    !.inFlight = @ - 1,
                    !.attempted = Append(@, article),
                    !.queue = Tail(@),
                    !.postedCount = IF success /\ rr.mode = "full"
                                    THEN @ + 1 ELSE @,
                    !.totalNewArticles = IF success /\ rr.mode = "quick"
                                         THEN @ + 1 ELSE @,
                    !.paced = success /\ rr.mode = "full",
                    !.delivered = IF success THEN @ + 1 ELSE @,
                    !.pc = IF Tail(rr.queue) = <<>> THEN "savePub" ELSE "post"]]
            /\ sent' = [sent EXCEPT ![feed.url] = @ \cup {article.id}]
    /\ UNCHANGED <<metadata, readArticles, source, now, lastClean, addedLog,
                   budget, storeFaults, counter, calls, assigned>>

\* the outcomes of one read-modify-write of the metadata
StoreOutcomes == {"ok"} \cup {o \in {"readFail", "writeFail"} : budget > 0}

\* a variant of SavePub in which checkFeed swallows the failure of the put
SavePubSwallows(r) ==
    /\ run[r].pc = "savePub"
    /\ LET rr   == run[r]
           feed == rr.feeds[rr.idx]
       IN \E o \in StoreOutcomes :
            LET md     == GetFeedsMetadata(o # "readFail")
                throws == o = "writeFail" /\ feed.id \in DOMAIN md
                rr2    == [rr EXCEPT
                             !.fault = @ \/ o # "ok",
                             !.writeFailures = IF throws THEN Append(@, feed.id)
                                               ELSE @]
            IN /\ metadata' =
                    IF o = "ok"
                    THEN UpdateLastPubDate(md, feed.id, LatestPubDate(rr.articles))
                    ELSE metadata
               /\ run' = [run EXCEPT ![r] =
                    [rr2 EXCEPT !.pc = "saveChecked"]]
               /\ budget' = IF o = "ok" THEN budget ELSE budget - 1
               /\ storeFaults' = IF o = "ok" THEN storeFaults
                                 ELSE storeFaults + 1
    /\ UNCHANGED <<readArticles, source, now, sent, lastClean, addedLog>>
    /\ UNCHANGED <<counter, calls, assigned>>

\* await updateLastPubDate(feed.id, latestPubDateISO)
SavePub(r) ==
    /\ run[r].pc = "savePub"
    /\ LET rr   == run[r]
           feed == rr.feeds[rr.idx]
       IN \E o \in StoreOutcomes :
            LET md     == GetFeedsMetadata(o # "readFail")
                throws == o = "writeFail" /\ feed.id \in DOMAIN md
                rr2    == [rr EXCEPT
                             !.fault = @ \/ o # "ok",
                             !.writeFailures = IF throws THEN Append(@, feed.id)
                                               ELSE @]
            IN /\ metadata' =
                    IF o = "ok"
                    THEN UpdateLastPubDate(md, feed.id, LatestPubDate(rr.articles))
                    ELSE metadata
               /\ run' = [run EXCEPT ![r] =
                    IF throws THEN OnFeedError(rr2)
                    ELSE [rr2 EXCEPT !.pc = "saveChecked"]]
               /\ budget' = IF o = "ok" THEN budget ELSE budget - 1
               /\ storeFaults' = IF o = "ok" THEN storeFaults
                                 ELSE storeFaults + 1
    /\ UNCHANGED <<readArticles, source, now, sent, lastClean, addedLog>>
    /\ UNCHANGED <<counter, calls, assigned>>

\* await updateLastChecked(feed.id), after which the check of the feed is over
SaveChecked(r) ==
    /\ run[r].pc = "saveChecked"
    /\ LET rr   == run[r]
           feed == rr.feeds[rr.idx]
       IN \E o \in StoreOutcomes :
            LET md     == GetFeedsMetadata(o # "readFail")
                throws == o = "writeFail" /\ feed.id \in DOMAIN md
                rr2    == [rr EXCEPT
                             !.fault = @ \/ o # "ok",
                             !.writeFailures = IF throws THEN Append(@, feed.id)
                                               ELSE @]
                after  == IF throws THEN OnFeedError(rr2) ELSE OnFeedChecked(rr2)
            IN /\ metadata' =
                    IF o = "ok" THEN UpdateLastChecked(md, feed.id, now)
                    ELSE metadata
               /\ run' = [run EXCEPT ![r] = after]
               /\ lastClean' = [lastClean EXCEPT
                                  ![feed.id] = CleanAfter(after, metadata', feed.id)]
               /\ budget' = IF o = "ok" THEN budget ELSE budget - 1
               /\ storeFaults' = IF o = "ok" THEN storeFaults
                                 ELSE storeFaults + 1
    /\ UNCHANGED <<readArticles, source, now, sent, addedLog>>
    /\ UNCHANGED <<counter, calls, assigned>>

\* await this.sleep(2000) after a feed that was checked without an error
Sleep(r) ==
    /\ run[r].pc = "sleep"
    /\ run' = [run EXCEPT ![r] = NextFeed([run[r] EXCEPT !.slept = TRUE])]
    /\ UNCHANGED <<metadata, readArticles, source, now, sent, lastClean,
                   addedLog, budget, storeFaults>>
    /\ UNCHANGED <<counter, calls, assigned>>

\* a variant of Alert in which a failed webhook call ends the run
AlertAborts(r) ==
    /\ run[r].pc = "alert"
    /\ \E success \in BOOLEAN :
          run' = [run EXCEPT ![r] =
             IF success
             THEN NextFeed([run[r] EXCEPT !.alerts = @ + 1])
             ELSE [run[r] EXCEPT !.alerts = @ + 1, !.alertsFailed = @ + 1,
                                 !.pc = "done"]]
    /\ UNCHANGED <<metadata, readArticles, source, now, sent, lastClean,
                   addedLog, budget, storeFaults, counter, calls, assigned>>

\* await notifySystemError(...) in the catch of checkAllFeeds:
\* sendWebhookMessage returns false when the webhook fails and never throws,
\* and its result is dropped
Alert(r) ==
    /\ run[r].pc = "alert"
    /\ \E success \in BOOLEAN :
          run' = [run EXCEPT ![r] =
             NextFeed([run[r] EXCEPT
                         !.alerts = @ + 1,
                         !.alertsFailed = IF success THEN @ ELSE @ + 1])]
    /\ UNCHANGED <<metadata, readArticles, source, now, sent, lastClean,
                   addedLog, budget, storeFaults, counter, calls, assigned>>

(* ----------------------- the read-article lists ----------------------- *)

\* the article hashes 1, 2, ..., n in the order they were pushed
Ramp(n) == [k \in 1..n |-> k]

\* hashes handed to addReadArticle: the oldest of a long list, and the two
\* that fill it and overflow it
Hashes == {1, ReadArticlesCap, ReadArticlesCap + 1}

\* lists handed to saveReadArticles: below and above the cap
HashLists == { Ramp(2), Ramp(ReadArticlesCap + 1) }

\* a variant of LimitedHashes that keeps the first 1000: slice(0, 1000)
FirstHashes(articleHashes) == Take(articleHashes, ReadArticlesCap)

\* const limitedHashes = articleHashes.slice(-1000)
LimitedHashes(articleHashes) == LastN(articleHashes, ReadArticlesCap)

\* getReadArticles: the stored list, or [] when kv.get throws
GetReadArticles(feedId, readOk) ==
    IF readOk THEN readArticles[feedId] ELSE <<>>

\* readArticles.includes(articleHash)
Includes(list, articleHash) == \E k \in 1..Len(list) : list[k] = articleHash

\* saveReadArticles(feedId, articleHashes): the list cut to its last 1000 is
\* put; a failing put is caught and logged
SaveReadArticles(feedId, articleHashes) ==
    /\ now < MaxClock
    /\ \E o \in StoreOutcomes \ {"readFail"} :
          /\ readArticles' =
                IF o = "ok"
                THEN [readArticles EXCEPT ![feedId] = LimitedHashes(articleHashes)]
                ELSE readArticles
          /\ budget' = IF o = "ok" THEN budget ELSE budget - 1
          /\ storeFaults' = IF o = "ok" THEN storeFaults ELSE storeFaults + 1
    /\ addedLog' = [addedLog EXCEPT ![feedId] = articleHashes]
    /\ now' = now + 1
    /\ UNCHANGED <<metadata, source, run, sent, lastClean>>
    /\ UNCHANGED <<counter, calls, assigned>>

\* addReadArticle(feedId, articleHash): getReadArticles, push unless included,
\* saveReadArticles
AddReadArticle(feedId, articleHash) ==
    /\ now < MaxClock
    /\ \E o \in StoreOutcomes :
          LET list   == GetReadArticles(feedId, o # "readFail")
              pushed == Append(list, articleHash)
          IN /\ o = "writeFail" => ~Includes(list, articleHash)
             /\ readArticles' =
                   IF Includes(list, articleHash) \/ o = "writeFail"
                   THEN readArticles
                   ELSE [readArticles EXCEPT ![feedId] = LimitedHashes(pushed)]
             /\ budget' = IF o = "ok" THEN budget ELSE budget - 1
             /\ storeFaults' = IF o = "ok" THEN storeFaults
                               ELSE storeFaults + 1
    /\ addedLog' =
          IF Includes(readArticles[feedId], articleHash) THEN addedLog
          ELSE [addedLog EXCEPT ![feedId] = Append(@, articleHash)]
    /\ now' = now + 1
    /\ UNCHANGED <<metadata, source, run, sent, lastClean>>
    /\ UNCHANGED <<counter, calls, assigned>>

\* clearReadArticles(feedId): the key is deleted; a failing delete is caught
ClearReadArticles(feedId) ==
    /\ now < MaxClock
    /\ readArticles[feedId] # <<>>
    /\ \E o \in StoreOutcomes \ {"readFail"} :
          /\ readArticles' = IF o = "ok"
                             THEN [readArticles EXCEPT ![feedId] = <<>>]
                             ELSE readArticles
          /\ budget' = IF o = "ok" THEN budget ELSE budget - 1
          /\ storeFaults' = IF o = "ok" THEN storeFaults ELSE storeFaults + 1
    /\ addedLog' = [addedLog EXCEPT ![feedId] = <<>>]
    /\ now' = now + 1
    /\ UNCHANGED <<metadata, source, run, sent, lastClean>>
    /\ UNCHANGED <<counter, calls, assigned>>

(* ------------------- the requests, one KV access a step --------------- *)

\* the feed ids the counter can reach while the clock runs
IdSpace == 1..(Cardinality(Feeds) + MaxClock)

\* metadata[feedId] = feedInfo
PutFeed(md, feedId, feedInfo) ==
    [f \in DOMAIN md \cup {feedId} |-> IF f = feedId THEN feedInfo ELSE md[f]]

\* a variant of DeleteFeed that drops every record
DropsEveryFeed(md, feedId) == [f \in {} |-> 0]

\* delete metadata[feedId]
DeleteFeed(md, feedId) == [f \in DOMAIN md \ {feedId} |-> md[f]]

\* a variant of FindFeedByUrl that finds nothing
FindsNoFeed(md, url) == 0

\* findFeedByUrl: the id of the first record with that url, 0 for null
FindFeedByUrl(md, url) ==
    IF \E f \in DOMAIN md : md[f].url = url
    THEN CHOOSE f \in DOMAIN md :
            /\ md[f].url = url
            /\ \A g \in DOMAIN md : md[g].url = url => f <= g
    ELSE 0

\* findFeedByIdentifier / the loops of removeFeed and updateFeedStatus, the
\* identifier being a feed id: 0 for null
FindFeedByIdentifier(md, identifier) ==
    IF identifier \in DOMAIN md THEN identifier ELSE 0

\* generateFeedId: counter ? parseInt(counter, 10) + 1 : 1
NextFeedId(stored) == IF stored = 0 THEN 1 ELSE stored + 1

\* the /rss subcommands that reach the store, a feed or a run
Commands == {"add", "remove", "removeall", "pause", "restart", "test", "run"}

\* the HTTP requests: POST /discord with its signature headers, the member's
\* permissions and the /rss subcommand (every subcommand from an
\* administrator with Discord's signature, one of them from everybody else);
\* POST /rss-check; POST /clear-read with a feedId (0: none given)
Requests ==
    [path : {"/discord"}, sig : {"genuine"}, admin : {TRUE},
     cmd : Commands \ {"removeall", "run"}, arg : Feeds]
    \cup [path : {"/discord"}, sig : {"genuine", "forged", "missing"},
          admin : BOOLEAN, cmd : {"removeall", "run"}, arg : {0}]
    \cup [path : {"/rss-check"}, sig : {"missing"}, admin : {FALSE},
          cmd : {"none"}, arg : {0}]
    \cup [path : {"/clear-read"}, sig : {"missing"}, admin : {FALSE},
          cmd : {"none"}, arg : {0} \cup Feeds]

\* verifyDiscordRequest: false without the headers; else crypto.subtle's
\* verdict, or, when the runtime throws on 'Ed25519', the check of the
\* lengths alone, which a forged signature of 128 hex digits passes
VerifyDiscordRequest(req, ed25519) ==
    /\ req.sig # "missing"
    /\ ed25519 => req.sig = "genuine"

\* hasAdminPermission: the ADMINISTRATOR or the MANAGE_GUILD bit
HasAdminPermission(req) == req.admin

\* the call a client runs for a request, at its first KV access
StartCall(c, op, pc, arg, req) ==
    [IdleCall EXCEPT
        !.op = op, !.pc = pc, !.arg = arg,
        !.via = req.path,
        !.signed = req.sig = "genuine", !.admin = req.admin,
        !.overlapped = calls[c].overlapped
                       \/ \E d \in Clients \ {c} : calls[d].pc # "done"]

\* a request that was answered without a call of the store or a fetch
Answered(c, result, req) ==
    [IdleCall EXCEPT !.result = result, !.overlapped = calls[c].overlapped]

\* handleApplicationCommand's switch: the first step of each subcommand
Dispatch(c, req) ==
    CASE req.cmd = "add"       -> StartCall(c, "add", "find", req.arg, req)
      [] req.cmd = "remove"    -> StartCall(c, "remove", "find", req.arg, req)
      [] req.cmd = "removeall" -> StartCall(c, "removeall", "find", 0, req)
      [] req.cmd = "pause"     -> StartCall(c, "pause", "find", req.arg, req)
      [] req.cmd = "restart"   -> StartCall(c, "restart", "find", req.arg, req)
      [] req.cmd = "test"      -> StartCall(c, "test", "fetch", req.arg, req)
      [] OTHER                 -> StartCall(c, "check", "list", 0, req)

\* the fetch handler: /discord is verified and needs the permission, then
\* dispatches; /rss-check calls checkAllFeeds; /clear-read clears the
\* read-article list of the feed, or of every feed
Route(c, req, ed25519) ==
    CASE req.path = "/discord" ->
            IF ~VerifyDiscordRequest(req, ed25519)
            THEN Answered(c, "401", req)
            ELSE IF ~HasAdminPermission(req)
            THEN Answered(c, "no permission", req)
            ELSE Dispatch(c, req)
      [] req.path = "/rss-check" -> StartCall(c, "check", "list", 0, req)
      [] OTHER ->
            IF req.arg # 0
            THEN [StartCall(c, "clearread", "clear", 0, req)
                     EXCEPT !.todo = <<req.arg>>]
            ELSE StartCall(c, "clearread", "list", 0, req)

\* the worker takes a request: the isolates are interchangeable, the second
\* one serves only while the first is busy
Free(c) ==
    /\ calls[c].pc = "done"
    /\ c = 1 \/ calls[1].pc # "done"
    /\ budget > 0
    /\ now < MaxClock

\* an HTTP request arrives and is served up to its first await
Receive(c) ==
    /\ Free(c)
    /\ \E req \in Requests : \E ed25519 \in BOOLEAN :
          calls' = [calls EXCEPT ![c] = Route(c, req, ed25519)]
    /\ now' = now + 1
    /\ budget' = budget - 1
    /\ UNCHANGED <<metadata, readArticles, source, run, sent, lastClean,
                   addedLog, storeFaults, counter, assigned>>

\* the Cron Trigger: scheduled() calls checkAllFeeds
Scheduled(c) ==
    /\ Free(c)
    /\ calls' = [calls EXCEPT ![c] =
          StartCall(c, "check", "list", 0,
                    [path |-> "cron", sig |-> "missing", admin |-> FALSE])]
    /\ now' = now + 1
    /\ budget' = budget - 1
    /\ UNCHANGED <<metadata, readArticles, source, run, sent, lastClean,
                   addedLog, storeFaults, counter, assigned>>

\* the steps that read a key; the others put or delete one
ReadSteps == {"find", "list", "ctrGet", "mdGet", "pubGet"}

\* what the KV access of a step can do
StepOutcomes(call) ==
    StoreOutcomes \ (IF call.pc \in ReadSteps THEN {"writeFail"} ELSE {"readFail"})

\* the store as a step finds it, and the call as it stands
Here(call) ==
    [call |-> call, metadata |-> metadata, counter |-> counter,
     readArticles |-> readArticles]

\* the call returns, or throws to its handler's catch
Done(call, result) ==
    [IdleCall EXCEPT !.op = call.op, !.result = result,
                     !.overlapped = call.overlapped]

\* the keys of the object, in the order of Object.keys
Ids(md) == [k \in 1..Len(GetFeeds(md)) |-> GetFeeds(md)[k].id]

\* a variant of AddFeedEffects that looks for the url only after
\* generateFeedId has put the counter
AddFeedCountsFirst(call, o) ==
    LET here == Here(call)
        md   == GetFeedsMetadata(o = "ok")
    IN CASE call.pc = "find" ->
              { [here EXCEPT !.call = [call EXCEPT !.pc = "ctrGet"]] }
         [] call.pc = "ctrGet" ->
              { [here EXCEPT !.call =
                   IF o = "ok"
                   THEN [call EXCEPT !.pc = "ctrPut", !.id = NextFeedId(counter)]
                   ELSE Done(call, "error")] }
         [] call.pc = "ctrPut" ->
              { IF o = "ok"
                THEN [here EXCEPT !.counter = call.id,
                                  !.call = [call EXCEPT !.pc = "mdGet"]]
                ELSE [here EXCEPT !.call = Done(call, "error")] }
         [] call.pc = "mdGet" ->
              { [here EXCEPT !.call =
                   IF FindFeedByUrl(md, call.arg) # 0
                   THEN Done(call, "FEED_EXISTS")
                   ELSE [call EXCEPT !.pc = "mdPut", !.md = md]] }
         [] OTHER ->
              { IF o = "ok"
                THEN [here EXCEPT
                        !.metadata = PutFeed(call.md, call.id,
                                             NewFeedInfo(call.id, call.arg)),
                        !.call = Done(call, "ok")]
                ELSE [here EXCEPT !.call = Done(call, "error")] }

\* handleAddCommand from addFeed on: findFeedByUrl, generateFeedId's get and
\* put, getFeedsMetadata, metadata[feedId] = feedInfo, saveFeedsMetadata
AddFeedEffects(call, o) ==
    LET here == Here(call)
        md   == GetFeedsMetadata(o = "ok")
    IN CASE call.pc = "find" ->
              { [here EXCEPT !.call =
                   IF FindFeedByUrl(md, call.arg) # 0
                   THEN Done(call, "FEED_EXISTS")
                   ELSE [call EXCEPT !.pc = "ctrGet"]] }
         [] call.pc = "ctrGet" ->
              { [here EXCEPT !.call =
                   IF o = "ok"
                   THEN [call EXCEPT !.pc = "ctrPut", !.id = NextFeedId(counter)]
                   ELSE Done(call, "error")] }
         [] call.pc = "ctrPut" ->
              { IF o = "ok"
                THEN [here EXCEPT !.counter = call.id,
                                  !.call = [call EXCEPT !.pc = "mdGet"]]
                ELSE [here EXCEPT !.call = Done(call, "error")] }
         [] call.pc = "mdGet" ->
              { [here EXCEPT !.call = [call EXCEPT !.pc = "mdPut", !.md = md]] }
         [] OTHER ->
              { IF o = "ok"
                THEN [here EXCEPT
                        !.metadata = PutFeed(call.md, call.id,
                                             NewFeedInfo(call.id, call.arg)),
                        !.call = Done(call, "ok")]
                ELSE [here EXCEPT !.call = Done(call, "error")] }

\* handleRemoveCommand: findFeedByIdentifier, then removeFeed's
\* getFeedsMetadata, delete and saveFeedsMetadata, clearReadArticles
RemoveFeedEffects(call, o) ==
    LET here == Here(call)
        md   == GetFeedsMetadata(o = "ok")
    IN CASE call.pc = "find" ->
              { [here EXCEPT !.call =
                   IF FindFeedByIdentifier(md, call.arg) = 0
                   THEN Done(call, "FEED_NOT_FOUND")
                   ELSE [call EXCEPT !.pc = "mdGet"]] }
         [] call.pc = "mdGet" ->
              { [here EXCEPT !.call =
                   IF FindFeedByIdentifier(md, call.arg) = 0
                   THEN Done(call, "failed")
                   ELSE [call EXCEPT !.pc = "mdPut", !.md = md,
                            !.id = FindFeedByIdentifier(md, call.arg)]] }
         [] call.pc = "mdPut" ->
              { IF o = "ok"
                THEN [here EXCEPT !.metadata = DeleteFeed(call.md, call.id),
                                  !.call = [call EXCEPT !.pc = "clear"]]
                ELSE [here EXCEPT !.call = Done(call, "error")] }
         [] OTHER ->
              { [here EXCEPT
                   !.readArticles = IF o = "ok"
                                    THEN [readArticles EXCEPT ![call.id] = <<>>]
                                    ELSE readArticles,
                   !.call = Done(call, "ok")] }

\* handleRemoveAllCommand: getFeeds, then removeAllFeeds' getFeedsMetadata,
\* clearReadArticles of every key, put of {} and put of the counter '0'
RemoveAllFeedsEffects(call, o) ==
    LET here == Here(call)
        md   == GetFeedsMetadata(o = "ok")
    IN CASE call.pc = "find" ->
              { [here EXCEPT !.call =
                   IF DOMAIN md = {} THEN Done(call, "NO_FEEDS")
                   ELSE [call EXCEPT !.pc = "mdGet"]] }
         [] call.pc = "mdGet" ->
              { [here EXCEPT !.call =
                   IF DOMAIN md = {} THEN Done(call, "failed")
                   ELSE [call EXCEPT !.pc = "clear", !.todo = Ids(md)]] }
         [] call.pc = "clear" ->
              { [here EXCEPT
                   !.readArticles =
                       IF o = "ok"
                       THEN [readArticles EXCEPT ![Head(call.todo)] = <<>>]
                       ELSE readArticles,
                   !.call = [call EXCEPT
                               !.todo = Tail(@),
                               !.pc = IF Len(call.todo) = 1 THEN "mdPut"
                                      ELSE "clear"]] }
         [] call.pc = "mdPut" ->
              { IF o = "ok"
                THEN [here EXCEPT !.metadata = EmptyMetadata,
                                  !.call = [call EXCEPT !.pc = "ctrPut"]]
                ELSE [here EXCEPT !.call = Done(call, "error")] }
         [] OTHER ->
              { IF o = "ok"
                THEN [here EXCEPT !.counter = 0, !.call = Done(call, "ok")]
                ELSE [here EXCEPT !.call = Done(call, "error")] }

\* handlePauseCommand and handleRestartCommand: findFeedByIdentifier, the
\* refusal when the status is already the wanted one, then updateFeedStatus'
\* getFeedsMetadata and saveFeedsMetadata
UpdateFeedStatusEffects(call, o) ==
    LET here   == Here(call)
        md     == GetFeedsMetadata(o = "ok")
        status == IF call.op = "pause" THEN "paused" ELSE "active"
    IN CASE call.pc = "find" ->
              { [here EXCEPT !.call =
                   IF FindFeedByIdentifier(md, call.arg) = 0
                   THEN Done(call, "FEED_NOT_FOUND")
                   ELSE IF md[call.arg].status = status
                   THEN Done(call, "already")
                   ELSE [call EXCEPT !.pc = "mdGet"]] }
         [] call.pc = "mdGet" ->
              { [here EXCEPT !.call =
                   IF FindFeedByIdentifier(md, call.arg) = 0
                   THEN Done(call, "failed")
                   ELSE [call EXCEPT !.pc = "mdPut", !.md = md]] }
         [] OTHER ->
              { IF o = "ok"
                THEN [here EXCEPT
                        !.metadata = UpdateFeedStatus(call.md, call.arg, status),
                        !.call = Done(call, "ok")]
                ELSE [here EXCEPT !.call = Done(call, "error")] }

\* the store calls of a run for one feed of its list: getFeeds, then, when
\* the feed had new articles, updateLastPubDate's get and put, then
\* updateLastChecked's get and put.  quickCheck takes the first active feed,
\* checkAllFeeds each of them.
CheckEffects(call, o) ==
    LET here    == Here(call)
        md      == GetFeedsMetadata(o = "ok")
        feeds   == IF call.via = "/discord" THEN QuickActiveFeeds(GetFeeds(md))
                   ELSE ActiveFeeds(GetFeeds(md))
    IN CASE call.pc = "list" ->
              IF feeds = <<>> THEN { [here EXCEPT !.call = Done(call, "nothing")] }
              ELSE { [here EXCEPT !.call =
                        [call EXCEPT !.arg = feeds[k].id, !.hasNew = hasNew,
                                     !.pc = IF hasNew THEN "pubGet" ELSE "mdGet"]]
                     : k \in 1..Len(feeds), hasNew \in BOOLEAN }
         [] call.pc = "pubGet" ->
              { [here EXCEPT !.call =
                   IF call.arg \in DOMAIN md
                   THEN [call EXCEPT !.pc = "pubPut", !.md = md]
                   ELSE [call EXCEPT !.pc = "mdGet"]] }
         [] call.pc = "pubPut" ->
              { IF o = "ok"
                THEN [here EXCEPT
                        !.metadata = UpdateLastPubDate(call.md, call.arg, now),
                        !.call = [call EXCEPT !.pc = "mdGet"]]
                ELSE [here EXCEPT !.call = Done(call, "error")] }
         [] call.pc = "mdGet" ->
              { [here EXCEPT !.call =
                   IF call.arg \in DOMAIN md
                   THEN [call EXCEPT !.pc = "mdPut", !.md = md]
                   ELSE Done(call, "checked")] }
         [] OTHER ->
              { IF o = "ok"
                THEN [here EXCEPT
                        !.metadata = UpdateLastChecked(call.md, call.arg, now),
                        !.call = Done(call, "checked")]
                ELSE [here EXCEPT !.call = Done(call, "error")] }

\* /clear-read: clearReadArticles(feedId), or getFeeds and clearReadArticles
\* of every feed
ClearReadEffects(call, o) ==
    LET here == Here(call)
        md   == GetFeedsMetadata(o = "ok")
    IN CASE call.pc = "list" ->
              { [here EXCEPT !.call =
                   IF DOMAIN md = {} THEN Done(call, "ok")
                   ELSE [call EXCEPT !.pc = "clear", !.todo = Ids(md)]] }
         [] OTHER ->
              { [here EXCEPT
                   !.readArticles =
                       IF o = "ok"
                       THEN [readArticles EXCEPT ![Head(call.todo)] = <<>>]
                       ELSE readArticles,
                   !.call = IF Len(call.todo) = 1 THEN Done(call, "ok")
                            ELSE [call EXCEPT !.todo = Tail(@)]] }

\* the call of the client is in one of these operations, before a KV access
At(c, ops) == calls[c].op \in ops /\ calls[c].pc # "done"

\* one KV access of a call, with what the access did
StoreStep(c, outcome, effect) ==
    /\ calls' = [calls EXCEPT ![c] = effect.call]
    /\ metadata' = effect.metadata
    /\ counter' = effect.counter
    /\ assigned' = Assigned(assigned, effect.metadata)
    /\ readArticles' = effect.readArticles
    /\ budget' = IF outcome = "ok" THEN budget ELSE budget - 1
    /\ storeFaults' = IF outcome = "ok" THEN storeFaults ELSE storeFaults + 1
    /\ UNCHANGED <<source, now, run, sent, lastClean, addedLog>>

AddFeed(c) ==
    /\ At(c, {"add"})
    /\ \E o \in StepOutcomes(calls[c]) : \E e \in AddFeedEffects(calls[c], o) :
          StoreStep(c, o, e)

RemoveFeed(c) ==
    /\ At(c, {"remove"})
    /\ \E o \in StepOutcomes(calls[c]) : \E e \in RemoveFeedEffects(calls[c], o) :
          StoreStep(c, o, e)

RemoveAllFeeds(c) ==
    /\ At(c, {"removeall"})
    /\ \E o \in StepOutcomes(calls[c]) : \E e \in RemoveAllFeedsEffects(calls[c], o) :
          StoreStep(c, o, e)

SetFeedStatus(c) ==
    /\ At(c, {"pause", "restart"})
    /\ \E o \in StepOutcomes(calls[c]) : \E e \in UpdateFeedStatusEffects(calls[c], o) :
          StoreStep(c, o, e)

CheckStore(c) ==
    /\ At(c, {"check"})
    /\ \E o \in StepOutcomes(calls[c]) : \E e \in CheckEffects(calls[c], o) :
          StoreStep(c, o, e)

ClearRead(c) ==
    /\ At(c, {"clearread"})
    /\ \E o \in StepOutcomes(calls[c]) : \E e \in ClearReadEffects(calls[c], o) :
          StoreStep(c, o, e)

\* a variant of TestFeed that stamps lastChecked on the feed with that url
TestFeedStamps(c) ==
    /\ calls[c].op = "test"
    /\ calls[c].pc = "fetch"
    /\ \E fetchOk \in BOOLEAN :
          LET articles == ParseArticles(source[calls[c].arg], TestMaxArticles, fetchOk, now)
          IN calls' = [calls EXCEPT ![c] =
                 Done(calls[c], IF articles = <<>> THEN "failure" ELSE "success")]
    /\ metadata' = UpdateLastChecked(metadata,
                                     FindFeedByUrl(metadata, calls[c].arg), now)
    /\ UNCHANGED <<readArticles, source, now, run, sent, lastClean, addedLog,
                   budget, storeFaults, counter, assigned>>

\* handleTestCommand: testFeed(url) is parseArticles(url, 5) and a result
\* object, success: false when no article came back
TestFeed(c) ==
    /\ calls[c].op = "test"
    /\ calls[c].pc = "fetch"
    /\ \E fetchOk \in BOOLEAN :
          LET articles == ParseArticles(source[calls[c].arg], TestMaxArticles, fetchOk, now)
          IN calls' = [calls EXCEPT ![c] =
                 Done(calls[c], IF articles = <<>> THEN "failure" ELSE "success")]
    /\ UNCHANGED <<metadata, readArticles, source, now, run, sent, lastClean,
                   addedLog, budget, storeFaults, counter, assigned>>

(* --------------------------- specification ---------------------------- *)

\* one invocation at a time: the runs do not overlap; the commands and the
\* remote documents change at any point of a run
Next ==
    \/ RunStart(1, "full")
    \/ RunStart(1, "quick")
    \/ Fetch(1)
    \/ Post(1)
    \/ SavePub(1)
    \/ SaveChecked(1)
    \/ Sleep(1)
    \/ \E u \in Feeds : SourceChange(u)
    \/ \E f \in Feeds : Pause(f)
    \/ \E f \in Feeds : Restart(f)

Spec == Init /\ [][Next]_vars

\* the read-article lists on their own: the calls of addReadArticle,
\* saveReadArticles and clearReadArticles, one per tick of the clock, starting
\* from lists that are empty or one short of the cap
InitRead ==
    /\ metadata = [f \in Feeds |-> NewFeedInfo(f, f)]
    /\ readArticles \in [Feeds -> {<<>>, Ramp(ReadArticlesCap - 1)}]
    /\ addedLog = readArticles
    /\ source = [u \in Feeds |-> {}]
    /\ now = Epoch + 3
    /\ run = [r \in {1} |-> IdleRun]
    /\ sent = [u \in Feeds |-> {}]
    /\ lastClean = [f \in Feeds |-> NoClean]
    /\ budget = MaxEvents
    /\ storeFaults = 0
    /\ counter = Cardinality(Feeds)
    /\ calls = [c \in Clients |-> IdleCall]
    /\ assigned = Assigned({}, metadata)

NextRead ==
    \/ \E f \in Feeds : \E h \in Hashes : AddReadArticle(f, h)
    \/ \E f \in Feeds : \E l \in HashLists : SaveReadArticles(f, l)
    \/ \E f \in Feeds : ClearReadArticles(f)

SpecRead == InitRead /\ [][NextRead]_vars

\* the feed at url publishes an entry newer than those its document holds;
\* as in SourceChange, the change is taken where a fetch sees it
Publish(u) ==
    /\ budget > 0
    /\ FetchPending(u)
    /\ \E i \in Items :
          /\ i.kind = "dated"
          /\ \A j \in source[u] : j.kind = "dated" /\ j.t < i.t
          /\ source' = [source EXCEPT ![u] = @ \cup {i}]
    /\ budget' = budget - 1
    /\ UNCHANGED <<metadata, readArticles, now, run, sent, lastClean,
                   addedLog, storeFaults, counter, calls, assigned>>

\* two runs at a time (the Cron Trigger's, /rss-check's or /rss run's) on
\* the first feed, never checked and with one entry, the second feed being
\* paused
InitOverlap ==
    /\ metadata = [f \in Feeds |->
                     IF f = 1 THEN NewFeedInfo(f, f)
                     ELSE [NewFeedInfo(f, f) EXCEPT !.status = "paused"]]
    /\ readArticles = [f \in Feeds |-> <<>>]
    /\ source = [u \in Feeds |-> IF u = 1 THEN { i \in Items : i.id = 2 }
                                 ELSE {}]
    /\ now = Epoch + 4
    /\ run = [r \in Clients |-> IdleRun]
    /\ sent = [u \in Feeds |-> {}]
    /\ lastClean = [f \in Feeds |-> NoClean]
    /\ addedLog = [f \in Feeds |-> <<>>]
    /\ budget = MaxEvents
    /\ storeFaults = 0
    /\ counter = Cardinality(Feeds)
    /\ calls = [c \in Clients |-> IdleCall]
    /\ assigned = Assigned({}, metadata)

NextOverlap ==
    \/ \E r \in Clients : RunStart(r, "full")
    \/ \E r \in Clients : RunStart(r, "quick")
    \/ \E r \in Clients : Fetch(r)
    \/ \E r \in Clients : Post(r)
    \/ \E r \in Clients : SavePub(r)
    \/ \E r \in Clients : SaveChecked(r)
    \/ \E r \in Clients : Sleep(r)
    \/ \E u \in Feeds : Publish(u)

SpecOverlap == InitOverlap /\ [][NextOverlap]_vars

\* enough feeds for the alert to come due and for feeds to follow it
ManyFeeds == 1..(AlertThreshold + 2)

\* full runs over that many active feeds, never checked, the third with a
\* document of one dated entry, the others of one entry whose date does not
\* parse
InitAlert ==
    /\ metadata = [f \in ManyFeeds |-> NewFeedInfo(f, f)]
    /\ readArticles = [f \in ManyFeeds |-> <<>>]
    /\ source = [u \in ManyFeeds |->
                    IF u = AlertThreshold THEN { i \in Items : i.id = 1 }
                    ELSE { i \in Items : i.kind = "bad" }]
    /\ now = Epoch + 1
    /\ run = [r \in {1} |-> IdleRun]
    /\ sent = [u \in ManyFeeds |-> {}]
    /\ lastClean = [f \in ManyFeeds |-> NoClean]
    /\ addedLog = [f \in ManyFeeds |-> <<>>]
    /\ budget = MaxEvents
    /\ storeFaults = 0
    /\ counter = Cardinality(ManyFeeds)
    /\ calls = [c \in Clients |-> IdleCall]
    /\ assigned = Assigned({}, metadata)

NextAlert ==
    \/ RunStart(1, "full")
    \/ Fetch(1)
    \/ Post(1)
    \/ SavePub(1)
    \/ SaveChecked(1)
    \/ Sleep(1)
    \/ Alert(1)

SpecAlert == InitAlert /\ [][NextAlert]_vars

\* the store as the requests find it: empty, or with the two feeds, checked
\* once and with a read-article list each
\* one run over two feeds, the first with two new articles, the webhook
\* call of each post in its two steps
InitFlight ==
    /\ metadata = [f \in Feeds |-> NewFeedInfo(f, f)]
    /\ readArticles = [f \in Feeds |-> <<>>]
    /\ source = [u \in Feeds |->
                    IF u = 1 THEN { i \in Items : i.id \in {1, 3} }
                    ELSE { i \in Items : i.id = 2 }]
    /\ now = Epoch + 3
    /\ run = [r \in {1} |-> IdleRun]
    /\ sent = [u \in Feeds |-> {}]
    /\ lastClean = [f \in Feeds |-> NoClean]
    /\ addedLog = [f \in Feeds |-> <<>>]
    /\ budget = MaxEvents
    /\ storeFaults = 0
    /\ counter = Cardinality(Feeds)
    /\ calls = [c \in Clients |-> IdleCall]
    /\ assigned = Assigned({}, metadata)

NextFlight ==
    \/ RunStart(1, "full")
    \/ Fetch(1)
    \/ PostStart(1)
    \/ PostReturn(1)
    \/ SavePub(1)
    \/ SaveChecked(1)
    \/ Sleep(1)

SpecFlight == InitFlight /\ [][NextFlight]_vars

InitStore ==
    /\ metadata \in
          { [f \in ids |-> [NewFeedInfo(f, f) EXCEPT
                               !.lastPubDate = Epoch + 1,
                               !.lastChecked = Epoch + 2]] :
            ids \in {{}, {1}, Feeds} }
    /\ counter = Cardinality(DOMAIN metadata)
    /\ readArticles = [f \in IdSpace |->
                          IF f \in DOMAIN metadata THEN Ramp(1) ELSE <<>>]
    /\ source = [u \in Feeds |-> IF u = 1 THEN { i \in Items : i.id = 1 } ELSE {}]
    /\ now = Epoch + 3
    /\ run = [r \in {1} |-> IdleRun]
    /\ sent = [u \in Feeds |-> {}]
    /\ lastClean = [f \in Feeds |-> NoClean]
    /\ addedLog = [f \in Feeds |-> <<>>]
    /\ budget = MaxEvents
    /\ storeFaults = 0
    /\ calls = [c \in Clients |-> IdleCall]
    /\ assigned = Assigned({}, metadata)

NextStore ==
    \/ \E c \in Clients : Receive(c)
    \/ \E c \in Clients : Scheduled(c)
    \/ \E c \in Clients : AddFeed(c)
    \/ \E c \in Clients : RemoveFeed(c)
    \/ \E c \in Clients : RemoveAllFeeds(c)
    \/ \E c \in Clients : SetFeedStatus(c)
    \/ \E c \in Clients : CheckStore(c)
    \/ \E c \in Clients : ClearRead(c)
    \/ \E c \in Clients : TestFeed(c)

SpecStore == InitStore /\ [][NextStore]_vars

(* ----------------------------- properties ---------------------------- *)

\* a run is in, or has just ended, the check of a feed
InCheck(rr) == rr.checked # <<>>

\* the snapshot record of the feed whose check the run is in (or just ended)
CheckFeed(rr) == rr.feeds[Len(rr.checked)]

\* the fetched articles that article.pubDate > lastPubDate selects
NewIds(rr) ==
    { rr.articles[k].id : k \in
        { n \in 1..Len(rr.articles) :
            /\ rr.articles[n].pubDate # InvalidDate
            /\ rr.articles[n].pubDate > LastPubDate(CheckFeed(rr)) } }

\* the greatest pubDate among the fetched articles
MaxFetched(rr) ==
    CHOOSE m \in { rr.articles[k].pubDate : k \in 1..Len(rr.articles) } :
        \A k \in 1..Len(rr.articles) : m >= rr.articles[k].pubDate

(* C1: when a feed's fetch returns the same entries as in its previous     *)
(* check (which fetched, met no store fault and ended without error), the  *)
(* check posts nothing and the feed's lastPubDate stays what that previous *)
(* check left.                                                             *)
C1_UnchangedFeedIsIdempotent ==
    \A r \in DOMAIN run :
        LET rr == run[r] IN
        (InCheck(rr) /\ rr.same) =>
            /\ rr.attempted = <<>>
            /\ metadata[CheckFeed(rr).id].lastPubDate = rr.wmPrev

(* C2: within one check, full or lightweight, the posts go out in strictly *)
(* increasing pubDate order.                                               *)
C2_PostsOldestFirst ==
    \A r \in DOMAIN run :
        LET a == run[r].attempted IN
        \A i, j \in 1..Len(a) : i < j => a[i].pubDate < a[j].pubDate

(* C3: as long as no KV read or write has failed, a post is never made for *)
(* an item of a feed that was already posted (successfully or not) before. *)
C3_NoItemPostedTwice ==
    [][ \A r \in DOMAIN run :
          ( /\ storeFaults = 0
            /\ run[r].pc = "post"
            /\ run'[r].attempted # run[r].attempted )
          => Head(run[r].queue).id \notin sent[CheckFeed(run[r]).url] ]_vars

(* C4: no run fetches a feed whose stored status is paused at the time of  *)
(* the fetch.                                                              *)
C4_PausedNeverFetched ==
    \A r \in DOMAIN run : ~run[r].pausedAtFetch

(* C5: when checkAllFeeds has returned, every feed of its active snapshot  *)
(* was fetched, in order, whatever errors the feeds before it raised.      *)
C5_ErrorDoesNotStopRun ==
    \A r \in DOMAIN run :
        LET rr == run[r] IN
        (rr.mode = "full" /\ rr.pc = "done") =>
            rr.checked = [k \in 1..Len(rr.feeds) |-> rr.feeds[k].id]

\* a full run returned after its first feed raised an error and its second
\* feed was then checked without one
C5_Witness ==
    \E r \in DOMAIN run :
        /\ run[r].mode = "full" /\ run[r].pc = "done"
        /\ Len(run[r].checked) = 2
        /\ run[r].errorCount = 1 /\ run[r].successCount = 1
        /\ run[r].outcome = "ok"

(* C6: the step a run takes after a failed fetch leaves the stored         *)
(* metadata (lastPubDate, lastChecked, status of the feed) as it was.      *)
C6_FetchFailureLeavesRecord ==
    [][ \A r \in DOMAIN run :
          ( /\ InCheck(run[r])
            /\ ~run[r].fetchOk
            /\ run'[r] # run[r] )
          => metadata' = metadata ]_vars

(* C7: lastPubDate of a stored feed never decreases.                       *)
C7_WatermarkMonotonic ==
    [][ \A f \in DOMAIN metadata \cap DOMAIN metadata' :
          metadata'[f].lastPubDate >= metadata[f].lastPubDate ]_vars

(* C8: when the check of a feed has ended, the articles it posted are      *)
(* exactly the fetched ones with pubDate > the lastPubDate of the snapshot.*)
C8_PostedExactlyTheNew ==
    \A r \in DOMAIN run :
        LET rr == run[r] IN
        (InCheck(rr) /\ rr.outcome # "none") =>
            ArticleIds(rr.attempted) = NewIds(rr)

(* C9 as claimed, for checks without a store fault: after a check that     *)
(* fetched at least one entry and ended without error, lastPubDate is the  *)
(* maximum pubDate over the fetched entries.                               *)
C9_WatermarkIsMaxFetched ==
    \A r \in DOMAIN run :
        LET rr == run[r] IN
        (InCheck(rr) /\ rr.outcome = "ok" /\ rr.articles # <<>> /\ ~rr.fault) =>
            metadata[CheckFeed(rr).id].lastPubDate = MaxFetched(rr)

(* C9 amended: after such a check, lastPubDate is the maximum pubDate over *)
(* the fetched entries if one of them was new or the run is lightweight;   *)
(* after a full run's check with no new entry it is the value the snapshot *)
(* held, which (an absent one counting as the epoch) is no less than that  *)
(* maximum.                                                                *)
C9_WatermarkAfterCheck ==
    \A r \in DOMAIN run :
        LET rr == run[r]
            wm == metadata[CheckFeed(rr).id].lastPubDate
        IN
        (InCheck(rr) /\ rr.outcome = "ok" /\ rr.articles # <<>> /\ ~rr.fault) =>
            IF rr.mode = "quick" \/ NewIds(rr) # {}
            THEN wm = MaxFetched(rr)
            ELSE /\ wm = CheckFeed(rr).lastPubDate
                 /\ LastPubDate(CheckFeed(rr)) >= MaxFetched(rr)

\* a full run's check fetched entries, none new, all older than lastPubDate
C9_Witness ==
    \E r \in DOMAIN run :
        LET rr == run[r] IN
        /\ InCheck(rr) /\ rr.mode = "full" /\ rr.outcome = "ok" /\ ~rr.fault
        /\ rr.articles # <<>> /\ NewIds(rr) = {}
        /\ metadata[CheckFeed(rr).id].lastPubDate > MaxFetched(rr)

(* C10: whatever calls of addReadArticle and saveReadArticles were made,  *)
(* the stored list of a feed holds at most 1000 hashes and, as long as no  *)
(* KV read or write has failed, it is the last 1000 of the hashes in the   *)
(* order they were added: the oldest are the ones dropped.                 *)
C10_ReadArticlesCapped ==
    \A f \in Feeds :
        /\ Len(readArticles[f]) <= ReadArticlesCap
        /\ storeFaults = 0 =>
              LET n == Len(addedLog[f])
                  d == IF n > ReadArticlesCap THEN n - ReadArticlesCap ELSE 0
              IN /\ Len(readArticles[f]) = n - d
                 /\ \A k \in 1..(n - d) : readArticles[f][k] = addedLog[f][k + d]

\* more than 1000 hashes were added to a feed's list without any KV failure:
\* the list is full and its oldest hash is gone
C10_Witness ==
    \E f \in Feeds :
        /\ storeFaults = 0
        /\ Len(addedLog[f]) > ReadArticlesCap
        /\ Len(readArticles[f]) = ReadArticlesCap
        /\ readArticles[f][1] # addedLog[f][1]
        /\ readArticles[f][ReadArticlesCap] = addedLog[f][Len(addedLog[f])]

(* C11: the status of a subscription changes only by the operator's pause
   (to paused) and restart (to active), and a new subscription starts
   active; no store call of a run, whatever errors occur, changes a status. *)
C11_StatusOnlyByOperator ==
    [][ \A f \in DOMAIN metadata' :
          /\ ( f \in DOMAIN metadata
               /\ metadata'[f].status # metadata[f].status ) =>
                 \E c \in Clients :
                    /\ calls[c].op \in {"pause", "restart"}
                    /\ calls[c].pc = "mdPut"
                    /\ calls[c].arg = f
                    /\ calls'[c].pc = "done"
                    /\ metadata'[f].status =
                          IF calls[c].op = "pause" THEN "paused" ELSE "active"
          /\ ( \E c \in Clients :
                  /\ calls[c].op = "add" /\ calls[c].pc = "mdPut"
                  /\ calls'[c].result = "ok" /\ calls[c].id = f ) =>
                 metadata'[f].status = "active" ]_vars

(* C12: the step of the test command, whether its fetch succeeds, returns
   nothing or fails, leaves every subscription record, the counter and every
   read-article list as they were and sends nothing to the webhook. *)
C12_TestLeavesNoTrace ==
    [][ \A c \in Clients :
          ( calls[c].op = "test" /\ calls[c].pc = "fetch"
            /\ calls'[c].pc = "done" ) =>
              /\ metadata' = metadata
              /\ counter' = counter
              /\ readArticles' = readArticles
              /\ sent' = sent ]_vars

\* a test of a feed that is subscribed, with articles, has returned success
\* and one whose fetch failed or brought nothing has returned failure
C12_Witness ==
    /\ DOMAIN metadata # {}
    /\ calls[1].op = "test" /\ calls[1].pc = "done"
    /\ calls[1].result = "success"
    /\ calls[2].op = "test" /\ calls[2].pc = "done"
    /\ calls[2].result = "failure"

(* C14: when an add stores its record, also when two adds interleave at
   their reads and writes of the store, the id it was given is the id of no
   stored subscription and every stored record is still there unchanged. *)
C14_AddNeverOverwrites ==
    [][ \A c \in Clients :
          ( calls[c].op = "add" /\ calls[c].pc = "mdPut"
            /\ calls'[c].result = "ok" ) =>
              /\ calls[c].id \notin DOMAIN metadata
              /\ \A f \in DOMAIN metadata :
                    f \in DOMAIN metadata' /\ metadata'[f] = metadata[f] ]_vars

\* no call has overlapped another one so far
Sequential == \A c \in Clients : ~calls[c].overlapped

(* C15: while the operations are executed one after another and no KV call
   fails, no two stored subscriptions have the same url. *)
C15_UrlsDistinct ==
    ( Sequential /\ storeFaults = 0 ) =>
        \A f, g \in DOMAIN metadata :
            metadata[f].url = metadata[g].url => f = g

\* after two requests served one after the other, the second one an add of
\* a url that is subscribed, the add has been refused
C15_Witness ==
    /\ Sequential /\ storeFaults = 0
    /\ Cardinality(DOMAIN metadata) = 2
    /\ calls[1].op = "add" /\ calls[1].pc = "done"
    /\ calls[1].result = "FEED_EXISTS"
    /\ budget = 0

(* C16: while the operations are executed one after another and no KV call
   fails, a remove that succeeds leaves neither the record of the feed nor
   its read-article list, and no step of the remove changes the record or
   the read-article list of another feed. *)
C16_RemoveTakesOneFeed ==
    [][ \A c \in Clients :
          ( calls[c].op = "remove" /\ calls[c].pc # "done"
            /\ calls'[c] # calls[c]
            /\ Sequential /\ storeFaults' = 0 ) =>
              /\ \A f \in DOMAIN metadata \ {calls[c].arg} :
                    f \in DOMAIN metadata' /\ metadata'[f] = metadata[f]
              /\ \A f \in DOMAIN readArticles \ {calls[c].arg} :
                    readArticles'[f] = readArticles[f]
              /\ calls'[c].result = "ok" =>
                    /\ calls[c].arg \notin DOMAIN metadata'
                    /\ readArticles'[calls[c].arg] = <<>> ]_vars

\* a remove of one of two feeds has succeeded, the other feed is left with
\* its watermark and its read-article list
C16_Witness ==
    /\ Sequential /\ storeFaults = 0
    /\ calls[1].op = "remove" /\ calls[1].result = "ok"
    /\ DOMAIN metadata = {2}
    /\ metadata[2].lastPubDate = Epoch + 1
    /\ readArticles[2] # <<>>
    /\ readArticles[1] = <<>>

\* the operations that run a check, change the store or delete a
\* read-article list
GuardedOps == {"add", "remove", "removeall", "pause", "restart", "check",
               "clearread"}

(* C17: every call that an HTTP request started and that runs a check,
   changes the store or deletes a read-article list was started by a
   request whose Ed25519 signature verified and whose member holds
   ADMINISTRATOR or MANAGE_GUILD. *)
C17_OnlySignedAdmins ==
    \A c \in Clients :
        ( calls[c].pc # "done" /\ calls[c].op \in GuardedOps
          /\ calls[c].via # "cron" ) =>
            calls[c].signed /\ calls[c].admin

(* C13: a lightweight run takes at most one feed, the active one of lowest *)
(* id in the metadata it read, fetches at most one feed and reports        *)
(* checkedFeeds <= 1.                                                      *)
C13_QuickChecksOneFeed ==
    [][ \A r \in DOMAIN run :
          LET rr == run'[r] IN
          rr.mode = "quick" =>
            /\ Len(rr.feeds) <= 1
            /\ Len(rr.checked) <= 1
            /\ \A k \in 1..Len(rr.checked) : rr.checked[k] = rr.feeds[1].id
            /\ ( run[r].pc \in {"idle", "done"} /\ rr # run[r] /\ ~rr.fault ) =>
                 LET active == { f \in DOMAIN metadata :
                                   metadata[f].status = "active" }
                 IN IF active = {} THEN rr.feeds = <<>>
                    ELSE /\ Len(rr.feeds) = 1
                         /\ rr.feeds[1].id \in active
                         /\ \A f \in active : rr.feeds[1].id <= f ]_vars

\* a lightweight run checked feed-002, the only active feed of two
C13_Witness ==
    \E r \in DOMAIN run :
        /\ run[r].mode = "quick" /\ run[r].pc = "done"
        /\ run[r].checked = <<2>>
        /\ Cardinality(DOMAIN metadata) = 2

(* C18: the write of a feed's watermark by a run stores the maximum pubDate
   of what that run fetched, whatever value another run has stored since
   the run read the feed; so two runs that overlap on a feed can both send
   an entry, and the later write can replace a larger watermark. *)
C18_LastWriteWins ==
    [][ \A r \in DOMAIN run :
          ( run[r].pc = "savePub" /\ run'[r].pc = "saveChecked"
            /\ storeFaults' = storeFaults
            /\ CheckFeed(run[r]).id \in DOMAIN metadata ) =>
              metadata'[CheckFeed(run[r]).id].lastPubDate = MaxFetched(run[r])
      ]_vars

\* two runs read feed 1 before either wrote its watermark, both sent the same
\* entry, and the watermark left by the later write is below the one the
\* first run had written
C18_Witness ==
    /\ storeFaults = 0
    /\ \A r \in DOMAIN run :
          /\ run[r].pc = "done" /\ run[r].outcome = "ok"
          /\ run[r].checked = <<1>>
          /\ run[r].feeds[1].lastPubDate = NoDate
    /\ ArticleIds(run[1].attempted) \cap ArticleIds(run[2].attempted) # {}
    /\ metadata[1].lastPubDate < MaxFetched(run[1])

(* C19: within the check of one feed, a pacing wait has been taken after   *)
(* the previous post whenever the next post is about to be made.           *)
C19_WaitBetweenPosts ==
    \A r \in DOMAIN run :
        (run[r].pc = "post" /\ run[r].attempted # <<>>) => run[r].paced

(* C20: in a full run, the fetch of every feed but the first is preceded   *)
(* by the inter-feed wait, whatever the outcome of the feed before it.     *)
C20_WaitBetweenFeeds ==
    \A r \in DOMAIN run :
        (run[r].mode = "full" /\ run[r].pc = "fetch" /\ run[r].idx > 1)
            => run[r].slept

(* C21: in a full run, the check of a feed whose fetch failed ends counted
   in errorCount and not in successCount. *)
C21_FetchFailureCounted ==
    [][ \A r \in DOMAIN run :
          ( /\ run[r].mode = "full"
            /\ InCheck(run[r])
            /\ ~run[r].fetchOk
            /\ run[r].outcome = "none"
            /\ run'[r].outcome # "none" )
          => /\ run'[r].errorCount = run[r].errorCount + 1
             /\ run'[r].successCount = run[r].successCount ]_vars

\* three checks in a row ended in an error
ThreeInARow(results) ==
    \E k \in 1..(Len(results) - 2) :
        \A i \in k..(k + 2) : results[i] = "error"

(* C22: in a full run the alert has been sent once if three feeds in a row
   have failed and not at all otherwise: failures separated by a successful
   feed do not add up, and failures after the alert send no second one. *)
C22_OneAlertAtThreeInARow ==
    \A r \in DOMAIN run :
        ( run[r].mode = "full" /\ run[r].pc # "alert" ) =>
            run[r].alerts = IF ThreeInARow(run[r].results) THEN 1 ELSE 0

(* C30: a full run in which the webhook call of an alert failed has, when it
   returns, checked every feed of its list, each counted once. *)
C30_FailedAlertDoesNotStopRun ==
    \A r \in DOMAIN run :
        LET rr == run[r] IN
        ( rr.mode = "full" /\ rr.pc = "done" /\ rr.alertsFailed > 0 ) =>
            /\ rr.checked = [k \in 1..Len(rr.feeds) |-> rr.feeds[k].id]
            /\ rr.successCount + rr.errorCount = Len(rr.feeds)

\* the first three feeds failed, the alert then due could not be sent, and
\* the run went on to the two feeds after them and returned
C30_Witness ==
    \E r \in DOMAIN run :
        LET rr == run[r] IN
        /\ rr.mode = "full" /\ rr.pc = "done"
        /\ Len(rr.results) = AlertThreshold + 2
        /\ \A k \in 1..AlertThreshold : rr.results[k] = "error"
        /\ rr.alerts >= 1 /\ rr.alertsFailed = rr.alerts

(* C23: once a pause, restart, add or remove has completed, a run's
   write-back of lastChecked or lastPubDate leaves the stored feeds and their
   statuses as that command left them. *)
C23_WriteBackKeepsCommands ==
    [][ \A c \in Clients :
          ( /\ calls[c].op = "check" /\ calls[c].pc \in {"pubPut", "mdPut"}
            /\ calls'[c] # calls[c]
            /\ \E d \in Clients \ {c} :
                  /\ calls[d].op \in {"pause", "restart", "add", "remove"}
                  /\ calls[d].pc = "done" /\ calls[d].result = "ok" )
          => /\ DOMAIN metadata' = DOMAIN metadata
             /\ \A f \in DOMAIN metadata :
                   metadata'[f].status = metadata[f].status ]_vars

\* ---------------------------------------------------------------------
\* Identifiers: a command names its feed by id, by URL or by custom name
\* ---------------------------------------------------------------------

\* the strings the commands are given: the ids generateFeedId makes, the
\* URLs of the feeds, and a free name
Identifiers == {"feed-001", "feed-002", "https://a", "https://b", "news"}

\* customName of a feed added without a name; the handlers refuse an empty
\* identifier, so it matches none
NoName == ""

\* the stores of two feeds, as Object.entries lists them: the custom name is
\* whatever the operator typed at /rss add
NamedStores ==
    { << [id |-> "feed-001", url |-> "https://a", customName |-> n1, status |-> s1],
         [id |-> "feed-002", url |-> "https://b", customName |-> n2, status |-> s2] >> :
      n1 \in Identifiers \cup {NoName}, n2 \in Identifiers \cup {NoName},
      s1 \in {"active", "paused"}, s2 \in {"active", "paused"} }

\* the least index of the set, 0 when it is empty
FirstOf(indices) ==
    IF indices = {} THEN 0
    ELSE CHOOSE k \in indices : \A i \in indices : k <= i

\* the loop of removeFeed and of updateFeedStatus: the first entry whose id,
\* url or customName is the identifier
FirstMatch(entries, identifier) ==
    FirstOf({ k \in DOMAIN entries :
                \/ entries[k].id = identifier
                \/ entries[k].url = identifier
                \/ entries[k].customName = identifier })

\* findFeedByIdentifier: metadata[identifier] when there is one, else the
\* first value whose url or customName is the identifier
FindFeedByIdentifierAmong(entries, identifier) ==
    IF \E k \in DOMAIN entries : entries[k].id = identifier
    THEN FirstOf({ k \in DOMAIN entries : entries[k].id = identifier })
    ELSE FirstOf({ k \in DOMAIN entries :
                     \/ entries[k].url = identifier
                     \/ entries[k].customName = identifier })

\* delete metadata[feedIdToRemove]
WithoutEntry(entries, m) ==
    [k \in 1..(Len(entries) - 1) |-> IF k < m THEN entries[k] ELSE entries[k + 1]]

\* the call record of a command that names its feed
NamedCall(op, identifier, feedId, result) ==
    [IdleCall EXCEPT !.op = op, !.arg = identifier, !.id = feedId,
                     !.result = result, !.via = "/discord",
                     !.signed = TRUE, !.admin = TRUE]

\* handleRemoveCommand: findFeedByIdentifier for the reply, removeFeed for
\* the store
HandleRemoveCommand(c) ==
    /\ \E identifier \in Identifiers :
         LET k == FindFeedByIdentifierAmong(metadata, identifier)
             m == FirstMatch(metadata, identifier)
         IN IF k = 0
            THEN /\ calls' = [calls EXCEPT ![c] =
                        NamedCall("remove", identifier, NoName, "FEED_NOT_FOUND")]
                 /\ metadata' = metadata
            ELSE /\ calls' = [calls EXCEPT ![c] =
                        NamedCall("remove", identifier, metadata[k].id, "ok")]
                 /\ metadata' = WithoutEntry(metadata, m)
    /\ UNCHANGED <<readArticles, source, now, run, sent, lastClean, addedLog,
                   budget, storeFaults, counter, assigned>>

\* handlePauseCommand and handleRestartCommand: findFeedByIdentifier for the
\* refusal and the reply, updateFeedStatus for the store
HandleStatusCommand(c) ==
    /\ \E op \in {"pause", "restart"} : \E identifier \in Identifiers :
         LET k == FindFeedByIdentifierAmong(metadata, identifier)
             m == FirstMatch(metadata, identifier)
             status == IF op = "pause" THEN "paused" ELSE "active"
         IN IF k = 0
            THEN /\ calls' = [calls EXCEPT ![c] =
                        NamedCall(op, identifier, NoName, "FEED_NOT_FOUND")]
                 /\ metadata' = metadata
            ELSE IF metadata[k].status = status
            THEN /\ calls' = [calls EXCEPT ![c] =
                        NamedCall(op, identifier, metadata[k].id, "already")]
                 /\ metadata' = metadata
            ELSE /\ calls' = [calls EXCEPT ![c] =
                        NamedCall(op, identifier, metadata[k].id, "ok")]
                 /\ metadata' = [metadata EXCEPT ![m].status = status]
    /\ UNCHANGED <<readArticles, source, now, run, sent, lastClean, addedLog,
                   budget, storeFaults, counter, assigned>>

InitNames ==
    /\ metadata \in NamedStores
    /\ readArticles = [f \in Feeds |-> <<>>]
    /\ source = [u \in Feeds |-> {}]
    /\ now = Epoch
    /\ run = [r \in {1} |-> IdleRun]
    /\ sent = [u \in Feeds |-> {}]
    /\ lastClean = [f \in Feeds |-> NoClean]
    /\ addedLog = [f \in Feeds |-> <<>>]
    /\ budget = MaxEvents
    /\ storeFaults = 0
    /\ counter = Cardinality(Feeds)
    /\ calls = [c \in {1} |-> NamedCall("none", NoName, NoName, "none")]
    /\ assigned = {}

NextNames == HandleRemoveCommand(1) \/ HandleStatusCommand(1)

SpecNames == InitNames /\ [][NextNames]_vars

(* C24: a remove, pause or restart that answers success has modified the
   feed that findFeedByIdentifier resolved and the reply names, and no
   other feed, whatever the identifier and the store. *)
C24_ModifiesTheReportedFeed ==
    [][ \A c \in DOMAIN calls :
          ( /\ calls'[c].result = "ok"
            /\ calls'[c].op \in {"remove", "pause", "restart"}
            /\ (calls'[c] # calls[c] \/ metadata' # metadata) )
          => LET reported == calls'[c].id
                 before == { metadata[k] : k \in DOMAIN metadata }
                 after  == { metadata'[k] : k \in DOMAIN metadata' }
             IN /\ { e \in after : e.id # reported }
                      = { e \in before : e.id # reported }
                /\ \A e \in after : e.id = reported =>
                      \/ calls'[c].op = "pause" /\ e.status = "paused"
                      \/ calls'[c].op = "restart" /\ e.status = "active"
                /\ calls'[c].op # "remove" => \E e \in after : e.id = reported
      ]_vars

(* C25: an add that overlapped no other call and stored its record has left every record
   that was stored before it present and unchanged, also when one of its
   reads of the store failed. *)
C25_AddKeepsStoredRecords ==
    [][ \A c \in Clients :
          ( /\ calls[c].op = "add" /\ calls[c].pc = "mdPut"
            /\ Sequential
            /\ metadata' # metadata )
          => \A f \in DOMAIN metadata :
                f \in DOMAIN metadata' /\ metadata'[f] = metadata[f] ]_vars

(* C26: in a full run, when a post of a feed failed, the check has still
   attempted every new article of the feed, oldest first, and, the store
   permitting, it stores the greatest fetched pubDate as the feed's
   lastPubDate and ends without an error. *)
C26_FailedPostDoesNotStopFeed ==
    [][ \A r \in DOMAIN run :
          LET rr == run[r] IN
          ( /\ rr.mode = "full" /\ InCheck(rr)
            /\ rr.postedCount < Len(rr.attempted)
            /\ run'[r] # rr /\ ~run'[r].fault )
          => /\ rr.pc = "savePub" =>
                  /\ rr.attempted =
                        NewArticles(rr.articles, LastPubDate(CheckFeed(rr)))
                  /\ run'[r].pc = "saveChecked"
                  /\ CheckFeed(rr).id \in DOMAIN metadata' =>
                        /\ metadata'[CheckFeed(rr).id].lastPubDate = MaxFetched(rr)
                        /\ MaxFetched(rr) > LastPubDate(CheckFeed(rr))
             /\ rr.pc = "saveChecked" => run'[r].outcome = "ok" ]_vars

\* a check that attempted two articles, all in vain, and ended without an
\* error, the lastPubDate advanced
C26_Witness ==
    \E r \in DOMAIN run :
        LET rr == run[r] IN
        /\ rr.mode = "full" /\ InCheck(rr) /\ rr.outcome = "ok"
        /\ Len(rr.attempted) >= 2 /\ rr.postedCount = 0
        /\ CheckFeed(rr).id \in DOMAIN metadata
        /\ metadata[CheckFeed(rr).id].lastPubDate = MaxFetched(rr)

(* C27: at every point of a full run that met no store fault, where the run
   may be cut off, a feed whose check has ended holds the lastPubDate that check left, and every
   other feed of the run holds the lastPubDate it had when the run started. *)
C27_AbortLeavesFeedsWhole ==
    \A r \in DOMAIN run :
        LET rr == run[r] IN
        ( rr.mode = "full" /\ storeFaults = 0 ) =>
            \A k \in 1..Len(rr.feeds) :
                LET f == rr.feeds[k].id IN
                f \in DOMAIN metadata =>
                    metadata[f].lastPubDate =
                        IF k <= Len(rr.results) /\ lastClean[f].seen
                        THEN lastClean[f].wm
                        ELSE rr.feeds[k].lastPubDate

(* C27, amended: at every point of a full run that met no store fault, a
   feed whose check has ended holds the lastPubDate that check left, a feed
   whose check has not begun holds the lastPubDate it had when the run
   started, and the feed in check holds either that or, once
   updateLastPubDate is done and before updateLastChecked, the greatest
   fetched pubDate; a check that posted and ended clean has stored the
   greatest fetched pubDate by the time it ends, before the next fetch. *)
C27_AbortLeavesCommittedFeeds ==
    \A r \in DOMAIN run :
        LET rr == run[r] IN
        ( rr.mode = "full" /\ storeFaults = 0 ) =>
            /\ \A k \in 1..Len(rr.feeds) :
                  LET f == rr.feeds[k].id IN
                  f \in DOMAIN metadata =>
                      IF k <= Len(rr.results)
                      THEN metadata[f].lastPubDate =
                              IF lastClean[f].seen THEN lastClean[f].wm
                              ELSE rr.feeds[k].lastPubDate
                      ELSE IF k > Len(rr.checked)
                      THEN metadata[f].lastPubDate = rr.feeds[k].lastPubDate
                      ELSE \/ metadata[f].lastPubDate = rr.feeds[k].lastPubDate
                           \/ /\ rr.pc = "saveChecked" /\ rr.attempted # <<>>
                              /\ metadata[f].lastPubDate = MaxFetched(rr)
            /\ ( /\ InCheck(rr) /\ rr.outcome = "ok" /\ ~rr.fault
                 /\ rr.attempted # <<>>
                 /\ CheckFeed(rr).id \in DOMAIN metadata )
               => metadata[CheckFeed(rr).id].lastPubDate = MaxFetched(rr)

\* the run is about to fetch its second feed: the first one's check posted
\* and has stored its lastPubDate, the second holds what it had
C27_Witness ==
    \E r \in DOMAIN run :
        LET rr == run[r] IN
        /\ rr.mode = "full" /\ rr.pc = "fetch"
        /\ Len(rr.feeds) = 2 /\ rr.results = <<"ok">>
        /\ rr.attempted # <<>> /\ storeFaults = 0
        /\ metadata[rr.feeds[1].id].lastPubDate = MaxFetched(rr)
        /\ MaxFetched(rr) > LastPubDate(rr.feeds[1])
        /\ metadata[rr.feeds[2].id].lastPubDate = rr.feeds[2].lastPubDate

(* C28: in a full run, when the put of a feed's lastPubDate or lastChecked
   fails, the feed is counted in errorCount and not in successCount, the
   posts made for it stay as they are for the rest of the run, and the run
   goes on to the next feed of its list, or returns after the last one. *)
C28_FailedWriteCountsAsError ==
    [][ \A r \in DOMAIN run :
          LET rr == run[r] IN
          ( rr.mode = "full" /\ run'[r].mode = "full"
            /\ Len(run'[r].checked) >= Len(rr.checked) )
          => /\ Len(run'[r].writeFailures) > Len(rr.writeFailures) =>
                  /\ run'[r].errorCount = rr.errorCount + 1
                  /\ run'[r].successCount = rr.successCount
                  /\ run'[r].results = Append(rr.results, "error")
                  /\ sent' = sent
                  /\ run'[r].pc = IF run'[r].errorCount >= AlertThreshold
                                  THEN "alert"
                                  ELSE IF Len(rr.checked) < Len(rr.feeds)
                                  THEN "fetch" ELSE "done"
                  /\ run'[r].pc = "fetch" => run'[r].idx = Len(rr.checked) + 1
             /\ \A k \in 1..Len(rr.writeFailures) :
                  \A n \in 1..Len(rr.feeds) :
                     rr.feeds[n].id = rr.writeFailures[k] =>
                        sent'[rr.feeds[n].url] = sent[rr.feeds[n].url] ]_vars

\* the put for the first feed failed after its posts, and the run went on to
\* check the second feed
C28_Witness ==
    \E r \in DOMAIN run :
        LET rr == run[r] IN
        /\ rr.mode = "full" /\ Len(rr.feeds) = 2
        /\ rr.writeFailures = <<rr.feeds[1].id>>
        /\ sent[rr.feeds[1].url] # {}
        /\ rr.results = <<"error", "ok">>
        /\ rr.errorCount = 1 /\ rr.successCount = 1

(* C29: a full run whose read of the stored feeds failed still takes every
   active feed of the store into its list. *)
C29_ReadFailureSkipsNoFeed ==
    [][ \A r \in DOMAIN run :
          ( /\ run[r].pc \in {"idle", "done"}
            /\ run'[r].mode = "full" /\ run'[r].checked = <<>>
            /\ storeFaults' = storeFaults + 1 )
          => Len(run'[r].feeds) = Len(ActiveFeeds(GetFeeds(metadata))) ]_vars

(* C31: within a run at most one webhook call is in flight, the one of the
   feed in check, and the check of a feed begins only when the check of the
   feed before it has ended: the feeds are checked one after another in the
   order of the run's list. *)
C31_OneSendAtATime ==
    \A r \in DOMAIN run :
        LET rr == run[r] IN
        /\ rr.inFlight \in {0, 1}
        /\ rr.inFlight = 1 <=> rr.pc = "posting"
        /\ Len(rr.checked) - Len(rr.results) \in {0, 1}
        /\ rr.pc \in {"post", "posting", "savePub", "saveChecked"}
              => Len(rr.checked) = Len(rr.results) + 1
        /\ rr.checked = [k \in 1..Len(rr.checked) |-> rr.feeds[k].id]

\* the second post of the first feed is in flight, the first has returned
C31_Witness ==
    \E r \in DOMAIN run :
        LET rr == run[r] IN
        /\ rr.mode = "full" /\ rr.pc = "posting" /\ rr.inFlight = 1
        /\ Len(rr.attempted) = 1 /\ Len(rr.checked) = 1

(* C32: whatever adds, removes and remove-alls were served one after another
   without a store fault, no feed id has been stored with two different
   urls. *)
C32_IdsNeverReassigned ==
    ( Sequential /\ storeFaults = 0 ) =>
        \A p \in assigned : \A q \in assigned : p[1] = q[1] => p[2] = q[2]

(* C33: an add of a url that a stored feed has, a pause of a paused feed
   and a restart of an active feed are refused at the command's first read
   of the store, when that read succeeds, and the refusal leaves the
   metadata, the counter and the read lists as they were; nothing was put
   before it. *)
C33_RefusalsLeaveStore ==
    [][ \A c \in Clients :
          LET call == calls[c]
              has(status) == /\ call.arg \in DOMAIN metadata
                             /\ metadata[call.arg].status = status
              refused ==
                 \/ /\ call.op = "add"
                    /\ \E f \in DOMAIN metadata : metadata[f].url = call.arg
                 \/ call.op = "pause" /\ has("paused")
                 \/ call.op = "restart" /\ has("active")
          IN /\ ( /\ call.pc = "find" /\ calls'[c] # call /\ refused
                  /\ storeFaults' = storeFaults )
                => /\ calls'[c].pc = "done"
                   /\ calls'[c].result =
                         IF call.op = "add" THEN "FEED_EXISTS" ELSE "already"
             /\ ( /\ call.pc # "done" /\ calls'[c].pc = "done"
                  /\ calls'[c].result \in {"FEED_EXISTS", "already"} )
                => /\ call.pc = "find"
                   /\ metadata' = metadata /\ counter' = counter
                   /\ readArticles' = readArticles ]_vars

\* an add of a registered url and a restart of an active feed were both
\* refused, and the store is the initial one
C33_Witness ==
    \E c \in Clients : \E d \in Clients :
        /\ calls[c].op = "add" /\ calls[c].result = "FEED_EXISTS"
        /\ calls[d].op = "restart" /\ calls[d].result = "already"
        /\ counter = Cardinality(DOMAIN metadata)

(* C34: when the fetch of a feed succeeds and yields no article, the check
   posts nothing and leaves every feed's lastPubDate, status and url as they
   are stored; a full run then stores the time as the feed's lastChecked and
   nothing else, a quick run stores nothing. *)
C34_EmptyFetchStampsOnly ==
    [][ \A r \in DOMAIN run :
          LET rr    == run[r]
              after == run'[r]
          IN /\ ( /\ after.mode = rr.mode /\ after.fetchOk
                  /\ after.articles = <<>>
                  /\ Len(after.checked) = Len(rr.checked) + 1 )
                => /\ metadata' = metadata /\ sent' = sent
                   /\ IF rr.mode = "full" THEN after.pc = "saveChecked"
                      ELSE after.outcome = "ok"
             /\ ( /\ InCheck(rr) /\ rr.fetchOk /\ rr.articles = <<>>
                  /\ rr.outcome = "none" /\ after # rr )
                => /\ sent' = sent
                   /\ DOMAIN metadata' = DOMAIN metadata
                   /\ \A f \in DOMAIN metadata :
                         /\ metadata'[f].lastPubDate = metadata[f].lastPubDate
                         /\ metadata'[f].status = metadata[f].status
                         /\ metadata'[f].url = metadata[f].url
                         /\ f # CheckFeed(rr).id => metadata'[f] = metadata[f]
                   /\ ( ~after.fault /\ CheckFeed(rr).id \in DOMAIN metadata )
                         => /\ metadata'[CheckFeed(rr).id].lastChecked = now
                            /\ after.outcome = "ok" ]_vars

\* a full run has checked a feed that was paused after the run had listed
\* it: the fetch gave no article, lastChecked is stored, the feed is still
\* paused
C34_Witness ==
    \E r \in DOMAIN run :
        LET rr == run[r] IN
        /\ rr.mode = "full" /\ InCheck(rr) /\ rr.fetchOk
        /\ rr.articles = <<>> /\ rr.outcome = "ok" /\ ~rr.fault
        /\ metadata[CheckFeed(rr).id].lastChecked = now
        /\ metadata[CheckFeed(rr).id].status = "paused"

(* C35: a quick run that overlaps no other call changes no stored record
   but the one of the feed it checks, removes and adds none, and leaves the
   counter and the read lists as they are. *)
C35_QuickRunWritesOneRecord ==
    [][ \A c \in Clients :
          ( /\ calls[c].op = "check" /\ calls[c].via = "/discord"
            /\ calls'[c] # calls[c] /\ Sequential )
          => /\ DOMAIN metadata' = DOMAIN metadata
             /\ \A f \in DOMAIN metadata :
                   f # calls[c].arg => metadata'[f] = metadata[f]
             /\ counter' = counter
             /\ readArticles' = readArticles ]_vars

\* a quick run has stored the lastPubDate of feed 1 and is about to store
\* its lastChecked; feed 2 is as it was
C35_Witness ==
    \E c \in Clients :
        /\ calls[c].op = "check" /\ calls[c].via = "/discord"
        /\ calls[c].pc = "mdGet" /\ calls[c].hasNew /\ calls[c].arg = 1
        /\ Sequential /\ storeFaults = 0
        /\ DOMAIN metadata = Feeds
        /\ metadata[1].lastPubDate = now
        /\ metadata[2].lastPubDate = Epoch + 1
        /\ metadata[2].lastChecked = Epoch + 2

(* C36: when a full run returns, successCount + errorCount is the number of
   feeds in its list, and totalNewArticles is the number of posts of the run
   that returned true. *)
C36_RunTotals ==
    \A r \in DOMAIN run :
        LET rr == run[r] IN
        ( rr.mode = "full" /\ rr.pc = "done" ) =>
            /\ rr.successCount + rr.errorCount = Len(rr.feeds)
            /\ rr.totalNewArticles = rr.delivered

====
